---- MODULE Spec2Model ----
(***************************************************************************)
(* Model of the kaleidoscope execution engine: fixtures with their list of *)
(* programs (bundled OFF/ON/EXTERNAL/MANUAL and scripted programs), the    *)
(* control surface that switches programs and writes parameters, and the   *)
(* tick that runs the active program of every fixture.                     *)
(*                                                                         *)
(* Continuous values (f64 in the source) are modelled as integer multiples *)
(* of 1/ParamScale.                                                        *)
(***************************************************************************)
EXTENDS Integers, Sequences, FiniteSets, TLC

VARIABLES
    fixtures,       \* Runtime.fixtures: sequence of Fixture
    call,           \* position of the control-surface handler holding the runtime mutex
    response,       \* the reply the step just taken sent to the control-surface client
    set_requests,   \* the batch the step just taken handed to post_set_requests
    tick_log,       \* observer: what the tick just taken did for each fixture
    watch,          \* observer: the history of one program under observation
    main,           \* the tick loop of main: its position, the runtime mutex guard
                    \* it holds and its Vec of set-requests
    ticker,         \* tick_ticker: the firings that are due, and an observer of
                    \* the ticks started since an interval last elapsed
    arb             \* the priority-arbitrating Runtime of runtime/runtime.rs

vars == <<fixtures, call, response, set_requests, tick_log, watch, main, ticker, arb>>

-----------------------------------------------------------------------------
(* Constants of the program *)

SLOW_MODE_NUM_SKIP_TICKS == 999

LOW == 0

HIGH == 65535

(* Bounds of the model *)

\* continuous values are k / ParamScale
ParamScale == 2

\* runs of a slow-mode program explored within one skip period
MaxSkipped == 2

-----------------------------------------------------------------------------
(* Generic helpers *)

Range(s) == {s[i] : i \in DOMAIN s}

Min(S) == CHOOSE x \in S : \A y \in S : x <= y

\* all sequences that enumerate the finite set S once each: the possible
\* iteration orders of a HashSet / HashMap
Orders(S) == {s \in [1..Cardinality(S) -> S] : Range(s) = S}

\* sequences over S of length at most n
SeqsUpTo(S, n) == UNION {[1..k -> S] : k \in 0..n}

\* first index of s whose element has the name, 0 if none (Iterator::position / find)
Position(s, name) ==
    IF \E i \in DOMAIN s : s[i].name = name
    THEN Min({i \in DOMAIN s : s[i].name = name})
    ELSE 0

-----------------------------------------------------------------------------
(* The universe configuration: output alias -> address *)

UniverseOutputs == [a |-> 5, b |-> 6, c |-> 7]

UniverseAddresses == {UniverseOutputs[al] : al \in DOMAIN UniverseOutputs}

\* alloy::map_to_value(range, x): linear scaling into [LOW, HIGH], rounded half
\* away from zero and clamped.  lo, hi, x are in units of 1/ParamScale.
map_to_value(lo, hi, x) ==
    LET num == (x - lo) * HIGH
        den == hi - lo
        r   == (2 * num + den) \div (2 * den)
    IN  IF r < LOW THEN LOW ELSE IF r > HIGH THEN HIGH ELSE r

-----------------------------------------------------------------------------
(* Programs *)

NoParameterValues == <<>>

\* a FixtureProgram; the fields a variant does not have keep their neutral value
Program(name, kind) ==
    [name |-> name, kind |-> kind,
     addresses |-> {}, output_value |-> LOW, reset |-> FALSE,
     outputs |-> <<>>, parameters |-> <<>>, dirty_parameters |-> FALSE,
     slow_mode |-> FALSE, skip_ticks_until_next_run |-> 0,
     lua_parameter_values |-> NoParameterValues]

\* a constant program constructed with reset cleared
new_fixed_value_not_reset(name, addresses, output) ==
    [Program(name, "BundledConstant") EXCEPT
        !.addresses = addresses, !.output_value = output, !.reset = FALSE]

\* BundledConstantFixtureProgram::new_fixed_value
new_fixed_value(name, addresses, output) ==
    [Program(name, "BundledConstant") EXCEPT
        !.addresses = addresses, !.output_value = output, !.reset = TRUE]

\* the aliases of a HashMap<String, Address>, sorted by address
RECURSIVE SortByAddress(_, _)
SortByAddress(aliases, map) ==
    IF aliases = {} THEN <<>>
    ELSE LET first == CHOOSE al \in aliases : \A o \in aliases : map[al] <= map[o]
         IN  <<first>> \o SortByAddress(aliases \ {first}, map)

ContinuousParameter(name, lower, upper, current) ==
    [name |-> name, lower_limit_incl |-> lower, upper_limit_incl |-> upper,
     current |-> current]

\* BundledManualFixtureProgram::new: aliases is the set of aliases of the
\* fixture's outputs
BundledManual_new(aliases) ==
    LET tmp == SortByAddress(aliases, UniverseOutputs)
    IN  [Program("MANUAL", "BundledManual") EXCEPT
            !.outputs = [i \in DOMAIN tmp |-> UniverseOutputs[tmp[i]]],
            !.parameters = [i \in DOMAIN tmp |->
                                ContinuousParameter(tmp[i], 0, ParamScale, 0)],
            !.dirty_parameters = TRUE,
            !.reset = TRUE]

\* FixtureProgramParameterType::Discrete: levels is the ordered list of
\* FixtureProgramParameterDiscreteLevel, current_index is 0-based
DiscreteParameter(name, levels, current_index) ==
    [name |-> name, levels |-> levels, current_index |-> current_index]

\* the variant of a FixtureProgramParameterType
IsDiscrete(param) == "levels" \in DOMAIN param

\* the tables a script passes to _declare_parameter_generic
ContinuousTable(name, lower, upper, default) ==
    [_name |-> name, _type |-> "continuous", _lower |-> lower, _upper |-> upper,
     _default |-> default, _levels |-> <<>>]

DiscreteTable(name, level_names) ==
    [_name |-> name, _type |-> "discrete", _lower |-> 0, _upper |-> 0, _default |-> 0,
     _levels |-> [i \in DOMAIN level_names |->
                     [name |-> level_names[i], description |-> ""]]]

\* a declaration that accepts a discrete parameter without levels
declare_parameter_generic_any_levels(parameters, t) ==
    IF Position(parameters, t._name) # 0
    THEN [ok |-> FALSE, parameters |-> parameters]
    ELSE CASE t._type = "continuous" ->
                [ok |-> TRUE,
                 parameters |-> Append(parameters,
                     ContinuousParameter(t._name, t._lower, t._upper, t._default))]
           [] t._type = "discrete" ->
                [ok |-> TRUE,
                 parameters |-> Append(parameters,
                     DiscreteParameter(t._name, t._levels, 0))]
           [] OTHER -> [ok |-> FALSE, parameters |-> parameters]

\* the closure declare_parameter_generic of LuaFixtureProgram::setup:
\* [ok, parameters]. A duplicate name, a discrete parameter without levels
\* and an unknown type are errors; the limits and the default of a
\* continuous parameter are stored as they come.
declare_parameter_generic(parameters, t) ==
    IF Position(parameters, t._name) # 0
    THEN [ok |-> FALSE, parameters |-> parameters]
    ELSE CASE t._type = "continuous" ->
                [ok |-> TRUE,
                 parameters |-> Append(parameters,
                     ContinuousParameter(t._name, t._lower, t._upper, t._default))]
           [] t._type = "discrete" ->
                IF t._levels = <<>>
                THEN [ok |-> FALSE, parameters |-> parameters]
                ELSE [ok |-> TRUE,
                      parameters |-> Append(parameters,
                          DiscreteParameter(t._name, t._levels, 0))]
           [] OTHER -> [ok |-> FALSE, parameters |-> parameters]

\* LuaFixtureProgram::setup running a script's setup(), which makes the
\* declarations decls in order: [ok, parameters]; the first error ends it
RECURSIVE LuaFixtureProgram_setup(_, _)
LuaFixtureProgram_setup(parameters, decls) ==
    IF decls = <<>> THEN [ok |-> TRUE, parameters |-> parameters]
    ELSE LET r == declare_parameter_generic(parameters, Head(decls))
         IN  IF ~r.ok THEN r ELSE LuaFixtureProgram_setup(r.parameters, Tail(decls))

\* The program scripts on disk: what their setup() does.
\* slow.lua calls set_slow_mode(true); slow and fast declare one continuous
\* parameter; modes declares a discrete parameter with three levels and a
\* continuous one; the others make a declaration that is to be refused.
SourceDeclarations ==
    [slow |-> [slow_mode |-> TRUE,
               declarations |-> <<ContinuousTable("speed", 0, ParamScale, ParamScale)>>],
     fast |-> [slow_mode |-> FALSE,
               declarations |-> <<ContinuousTable("speed", 0, ParamScale, 0)>>],
     modes |-> [slow_mode |-> FALSE,
                declarations |-> <<DiscreteTable("mode", <<"L0", "L1", "L2">>),
                                   ContinuousTable("speed", 0, ParamScale, 1)>>],
     single |-> [slow_mode |-> FALSE,
                 declarations |-> <<DiscreteTable("mode", <<"L0">>)>>],
     nolevels |-> [slow_mode |-> FALSE,
                   declarations |-> <<DiscreteTable("mode", <<>>)>>],
     twice |-> [slow_mode |-> FALSE,
                declarations |-> <<ContinuousTable("speed", 0, ParamScale, 0),
                                   DiscreteTable("speed", <<"L0">>)>>],
     above |-> [slow_mode |-> FALSE,
                declarations |-> <<ContinuousTable("speed", 0, ParamScale, ParamScale + 1)>>]]

\* what LuaFixtureProgram::setup returns for each script
SourceFiles ==
    [s \in DOMAIN SourceDeclarations |->
        LET r == LuaFixtureProgram_setup(<<>>, SourceDeclarations[s].declarations)
        IN  [ok |-> r.ok,
             slow_mode |-> SourceDeclarations[s].slow_mode,
             parameters |-> r.parameters]]

\* LuaFixtureProgram::new with the values its setup() returned
LuaFixtureProgram_new(name, source) ==
    [Program(name, "Lua") EXCEPT
        !.parameters = SourceFiles[source].parameters,
        !.slow_mode = SourceFiles[source].slow_mode,
        !.skip_ticks_until_next_run = 0,
        !.dirty_parameters = TRUE]

-----------------------------------------------------------------------------
(* Fixture construction *)

\* a setup whose add_program accepts a name already declared
setup_allows_duplicates(calls) ==
    [ok |-> TRUE,
     outputs |-> {UniverseOutputs[al] : al \in calls.outputs},
     program_sources |-> calls.programs,
     disable_builtin_programs |-> calls.disable_builtin,
     disable_manual_program |-> calls.disable_manual]

\* Fixture::setup: the values collected from the fixture script's setup().
\* calls = [outputs: set of aliases given to add_output_alias,
\*          programs: sequence of <<name, source>> given to add_program,
\*          disable_builtin, disable_manual]
\* add_program fails on a name already declared.
setup(calls) ==
    LET names == [i \in DOMAIN calls.programs |-> calls.programs[i][1]]
        dup   == \E i, j \in DOMAIN names : i < j /\ names[i] = names[j]
    IN  [ok |-> ~dup,
         outputs |-> {UniverseOutputs[al] : al \in calls.outputs},
         program_sources |-> calls.programs,
         disable_builtin_programs |-> calls.disable_builtin,
         disable_manual_program |-> calls.disable_manual]

\* the bundled programs with MANUAL pushed before EXTERNAL
BundledPrograms_manual_first(sv) ==
    LET output_aliases == {al \in DOMAIN UniverseOutputs : UniverseOutputs[al] \in sv.outputs}
    IN  (IF ~sv.disable_builtin_programs
         THEN <<new_fixed_value("OFF", sv.outputs, LOW),
                new_fixed_value("ON", sv.outputs, HIGH)>>
         ELSE <<>>)
        \o (IF ~sv.disable_manual_program
            THEN <<BundledManual_new(output_aliases)>>
            ELSE <<>>)
        \o <<Program("EXTERNAL", "External")>>

\* the bundled programs pushed before the scripted ones, in order
BundledPrograms(sv) ==
    LET output_aliases == {al \in DOMAIN UniverseOutputs : UniverseOutputs[al] \in sv.outputs}
    IN  (IF ~sv.disable_builtin_programs
         THEN <<new_fixed_value("OFF", sv.outputs, LOW),
                new_fixed_value("ON", sv.outputs, HIGH)>>
         ELSE <<>>)
        \o <<Program("EXTERNAL", "External")>>
        \o (IF ~sv.disable_manual_program
            THEN <<BundledManual_new(output_aliases)>>
            ELSE <<>>)

\* the loop that adds the scripted programs: [ok, programs]; fails on a name
\* that is already in the list, and on a script whose setup() failed
RECURSIVE AddLuaPrograms(_, _)
AddLuaPrograms(programs, sources) ==
    IF sources = <<>> THEN [ok |-> TRUE, programs |-> programs]
    ELSE LET name == Head(sources)[1]
         IN  IF \/ \E i \in DOMAIN programs : programs[i].name = name
                \/ ~SourceFiles[Head(sources)[2]].ok
             THEN [ok |-> FALSE, programs |-> programs]
             ELSE AddLuaPrograms(
                     Append(programs, LuaFixtureProgram_new(name, Head(sources)[2])),
                     Tail(sources))

\* Fixture::new: [ok, fixture]
Fixture_new(calls) ==
    LET sv    == setup(calls)
        added == AddLuaPrograms(BundledPrograms(sv), sv.program_sources)
    IN  [ok |-> sv.ok /\ added.ok /\ added.programs # <<>>,
         fixture |-> [addresses |-> sv.outputs,
                      programs |-> added.programs,
                      current_program_index |-> 0]]

-----------------------------------------------------------------------------
(* Running and enabling a program *)

SetRequest(addr, value) == [target |-> addr, value |-> value]

\* an enable that leaves the skip counter of a scripted program as it is
FixtureProgram_enable_keeps_skip(p) ==
    CASE p.kind = "BundledConstant" -> [p EXCEPT !.reset = TRUE]
      [] p.kind = "BundledManual"   -> [p EXCEPT !.reset = TRUE]
      [] OTHER                      -> p

\* FixtureProgram::enable and the enable of each variant
FixtureProgram_enable(p) ==
    CASE p.kind = "BundledConstant" -> [p EXCEPT !.reset = TRUE]
      [] p.kind = "Lua"             -> [p EXCEPT !.skip_ticks_until_next_run = 0]
      [] p.kind = "BundledManual"   -> [p EXCEPT !.reset = TRUE]
      [] OTHER                      -> p

\* The result of a run: the program afterwards, Ok/Err, the possible sequences
\* appended to output_requests (one per iteration order of a hashed
\* collection), whether _tick was invoked and the parameter table it saw.
RunResult(p, result, emissions, lua_called) ==
    [program |-> p, result |-> result, emissions |-> emissions,
     lua_called |-> lua_called, lua_seen |-> p.lua_parameter_values]

\* a run that never clears reset
BundledConstant_run_keeps_reset(p) ==
    IF p.reset
    THEN RunResult(p, "ok",
                   {[i \in DOMAIN o |-> SetRequest(o[i], p.output_value)] :
                        o \in Orders(p.addresses)},
                   FALSE)
    ELSE RunResult(p, "ok", {<<>>}, FALSE)

\* BundledConstantFixtureProgram::run
BundledConstant_run(p) ==
    IF p.reset
    THEN RunResult([p EXCEPT !.reset = FALSE], "ok",
                   {[i \in DOMAIN o |-> SetRequest(o[i], p.output_value)] :
                        o \in Orders(p.addresses)},
                   FALSE)
    ELSE RunResult(p, "ok", {<<>>}, FALSE)

\* the length of outputs.iter().zip(parameters.iter())
ZipLen(a, b) == IF Len(a) <= Len(b) THEN Len(a) ELSE Len(b)

\* BundledManualFixtureProgram::run
BundledManual_run(p) ==
    IF ~p.reset /\ ~p.dirty_parameters
    THEN RunResult(p, "ok", {<<>>}, FALSE)
    ELSE RunResult([p EXCEPT !.reset = FALSE, !.dirty_parameters = FALSE], "ok",
                   {[i \in 1..ZipLen(p.outputs, p.parameters) |->
                        SetRequest(p.outputs[i],
                                   map_to_value(0, ParamScale, p.parameters[i].current))]},
                   FALSE)

\* the table LuaFixtureProgram::inject_parameters builds: name -> current value
ParameterTable(p) ==
    [i \in DOMAIN p.parameters |->
        <<p.parameters[i].name,
          IF "levels" \in DOMAIN p.parameters[i]
          THEN p.parameters[i].levels[p.parameters[i].current_index + 1].name
          ELSE p.parameters[i].current>>]

\* LuaFixtureProgram::inject_parameters; ok is whether building and binding the
\* table succeeds when it is attempted
inject_parameters(p, ok) ==
    IF ~p.dirty_parameters THEN [ok |-> TRUE, program |-> p]
    ELSE IF ~ok THEN [ok |-> FALSE, program |-> p]
    ELSE [ok |-> TRUE,
          program |-> [p EXCEPT !.lua_parameter_values = ParameterTable(p),
                                !.dirty_parameters = FALSE]]

\* a condition that ends the skip period one run early
lua_due_one_early(p) == p.skip_ticks_until_next_run <= 1 \/ p.dirty_parameters

\* a condition that ignores dirty_parameters
lua_due_skip_only(p) == p.skip_ticks_until_next_run = 0

\* whether LuaFixtureProgram::run enters the branch that calls _tick
lua_due(p) == p.skip_ticks_until_next_run = 0 \/ p.dirty_parameters

\* a run that starts the skip period of a slow-mode program although _tick
\* failed
LuaFixtureProgram_run_skips_after_failure(p, oc) ==
    IF lua_due(p)
    THEN LET inj == inject_parameters(p, oc.inject)
             q   == inj.program
             s   == IF q.slow_mode
                    THEN [q EXCEPT !.skip_ticks_until_next_run = SLOW_MODE_NUM_SKIP_TICKS]
                    ELSE q
         IN  IF ~inj.ok THEN RunResult(q, "err", {<<>>}, FALSE)
             ELSE IF ~oc.tick_ok THEN RunResult(s, "err", {<<>>}, TRUE)
             ELSE RunResult(s, "ok",
                    {[i \in DOMAIN o |-> SetRequest(o[i], oc.tick[o[i]])] :
                        o \in Orders(DOMAIN oc.tick)},
                    TRUE)
    ELSE RunResult([p EXCEPT !.skip_ticks_until_next_run = @ - 1], "ok", {<<>>}, FALSE)

\* LuaFixtureProgram::run. oc = [inject: whether binding the parameter table
\* succeeds, tick_ok: whether _tick succeeds, tick: the map Address ->
\* OutputValue that _tick returns]
LuaFixtureProgram_run(p, oc) ==
    IF lua_due(p)
    THEN LET inj == inject_parameters(p, oc.inject)
             q   == inj.program
         IN  IF ~inj.ok THEN RunResult(q, "err", {<<>>}, FALSE)
             ELSE IF ~oc.tick_ok THEN RunResult(q, "err", {<<>>}, TRUE)
             ELSE RunResult(
                    IF q.slow_mode
                    THEN [q EXCEPT !.skip_ticks_until_next_run = SLOW_MODE_NUM_SKIP_TICKS]
                    ELSE q,
                    "ok",
                    {[i \in DOMAIN o |-> SetRequest(o[i], oc.tick[o[i]])] :
                        o \in Orders(DOMAIN oc.tick)},
                    TRUE)
    ELSE RunResult([p EXCEPT !.skip_ticks_until_next_run = @ - 1], "ok", {<<>>}, FALSE)

\* FixtureProgram::run
FixtureProgram_run(p, oc) ==
    CASE p.kind = "BundledConstant" -> BundledConstant_run(p)
      [] p.kind = "Lua"             -> LuaFixtureProgram_run(p, oc)
      [] p.kind = "BundledManual"   -> BundledManual_run(p)
      [] OTHER                      -> RunResult(p, "ok", {<<>>}, FALSE)

-----------------------------------------------------------------------------
(* Fixture operations *)

NumPrograms(fx) == Len(fx.programs)

ValidIndex(fx) ==
    0 <= fx.current_program_index /\ fx.current_program_index < NumPrograms(fx)

\* programs[i] of the source (0-based)
ProgramAt(fx, i) == fx.programs[i + 1]

CurrentProgram(fx) == ProgramAt(fx, fx.current_program_index)

\* Fixture::switch_program: [status, fixture]. The index is assigned before the
\* program is fetched, so an index equal to the length passes the check, is
\* stored, and the fetch panics.
switch_program(fx, to) ==
    IF ~(to <= NumPrograms(fx)) THEN [status |-> "err", fixture |-> fx]
    ELSE LET moved == [fx EXCEPT !.current_program_index = to]
         IN  IF to < NumPrograms(fx)
             THEN [status |-> "ok",
                   fixture |-> [moved EXCEPT !.programs[to + 1] =
                                                FixtureProgram_enable(@)]]
             ELSE [status |-> "panic", fixture |-> moved]

\* set_active_program passing the position one too far
set_active_program_off_by_one(fx, to) ==
    LET pos == Position(fx.programs, to)
    IN  IF pos = 0 THEN [status |-> "not found", fixture |-> fx]
        ELSE switch_program(fx, pos)

\* set_active_program falling back to the first program for an unknown name
set_active_program_default(fx, to) ==
    LET pos == Position(fx.programs, to)
    IN  switch_program(fx, IF pos = 0 THEN 0 ELSE pos - 1)

\* Fixture::set_active_program: [status, fixture], status "not found" when no
\* program has the name
set_active_program(fx, to) ==
    LET pos == Position(fx.programs, to)
    IN  IF pos = 0 THEN [status |-> "not found", fixture |-> fx]
        ELSE switch_program(fx, pos - 1)

\* Fixture::cycle_active_program: the index the scan starts at
cycle_first_index(fx) == (fx.current_program_index + 1) % NumPrograms(fx)

\* a loop condition that forgets EXTERNAL
cycle_skips_manual_only(name) == name = "MANUAL"

\* the condition of its while loop
cycle_skips(name) == name \in {"MANUAL", "EXTERNAL"}

\* the body of its while loop
cycle_next_index(fx, next_index) == (next_index + 1) % NumPrograms(fx)

\* Fixture::run_current_program
run_current_program(fx, oc) ==
    LET r == FixtureProgram_run(CurrentProgram(fx), oc)
    IN  [fixture |-> [fx EXCEPT !.programs[fx.current_program_index + 1] = r.program],
         run |-> r]

\* Fixture::alloy_metadata: the selected program's name
selected_program(fx) == CurrentProgram(fx).name

-----------------------------------------------------------------------------
(* Observers *)

\* the history of the program at position i of fixture f (f = 0: no program
\* is observed); its runs are counted when `counting`
Watching(f, i, counting) ==
    [f |-> f, i |-> i, counting |-> counting,
     has_run |-> FALSE,       \* the program was run at least once
     enabled |-> FALSE,       \* enable was called since its last run
     written |-> FALSE,       \* a parameter was assigned since its last run
     runs |-> 0,              \* number of runs of the program so far
     touch_runs |-> {},       \* the run counts after which a parameter request reached it
     mid_enabled |-> FALSE,   \* enable was called after its first run
     failures |-> 0]          \* number of its runs that failed

Watched(f, i) == watch.f = f /\ watch.i = i

WatchEnable(w, f, i) ==
    IF w.f = f /\ w.i = i
    THEN [w EXCEPT !.enabled = TRUE, !.mid_enabled = @ \/ w.has_run]
    ELSE w

WatchTouch(w, f, i, assigned) ==
    IF w.f = f /\ w.i = i
    THEN [w EXCEPT !.written = @ \/ assigned,
                   !.touch_runs = IF w.counting THEN @ \cup {w.runs} ELSE @]
    ELSE w

WatchRun(w, f, i, result) ==
    IF w.f = f /\ w.i = i
    THEN [w EXCEPT !.has_run = TRUE, !.enabled = FALSE, !.written = FALSE,
                   !.runs = IF w.counting THEN @ + 1 ELSE @,
                   !.failures = IF w.counting /\ result = "err" THEN @ + 1 ELSE @]
    ELSE w

\* the tick loop between two ticks: waiting for tick_ticker, holding no guard,
\* its Vec empty; failed is an observer: the last POST returned an error
MainIdle == [pc |-> "wait", locked |-> FALSE, buf |-> <<>>, failed |-> FALSE]

\* tick_ticker with no firing due
TickerIdle == [due |-> 0, started |-> 0]

\* a lock() that does not wait for the guard of the tick loop
lock_ignores_tick(m, c) == c.pc = "idle"

\* state.lock().await / runtime.lock().await returns: no handler and no tick
\* holds a guard of the runtime mutex
lock_available(m, c) == ~m.locked /\ c.pc = "idle"

NoResponse == [op |-> "none", fixture |-> 0, status |-> 0, body |-> ""]

\* the control-surface handler: idle, or inside the loop of
\* cycle_active_program with its local next_index; spin is the parity of the
\* number of loop iterations made
Idle == [pc |-> "idle", fixture |-> 0, next_index |-> 0, spin |-> 0]

-----------------------------------------------------------------------------
(* The priority-arbitrating runtime (runtime/runtime.rs) *)

\* the state before the first tick of the priority-arbitrating runtime: the
\* loaded programs, the programs executed and
\* the TickValues of the tick just taken, how that tick ended, and the batch
\* it handed to set_tx
ArbIdle ==
    [programs |-> <<>>, executed |-> {}, values |-> <<>>, result |-> "none",
     sent |-> <<>>, outcomes |-> <<>>,
     run_log |-> <<>>,           \* observer: the programs the last tick executed, in order
     set_rx |-> "open",          \* the receiver of the set channel: "open", or "dropped" when the set sender task returned
     channel |-> <<>>,           \* the batches buffered in the set channel
     posting |-> <<>>,           \* the batch the set sender task passed to client.set, <<>> when it waits
     upstream |-> <<>>,          \* observer: the last batch passed to the upstream client
     client |-> <<>>,            \* the upstream TCP client (net.rs), <<>> where it is not modelled
     universe_view |-> <<>>,     \* Runtime._universe_view
     event_buffer |-> <<>>,      \* Runtime.event_buffer, the shared FIFO
     events_processed |-> 0,     \* Runtime.events_processed
     ingester |-> "running",     \* handle_incoming_events_loop: running, returned or panicked
     pending |-> <<>>,           \* the event the ingester applied and has not yet enqueued
     arrived |-> <<>>,           \* observer: the events the ingester applied, in arrival order
     config_seen |-> FALSE,      \* observer: a Config message arrived after startup
     drained |-> 0,              \* observer: the number of events the ticks drained
     batches |-> <<>>,           \* observer: the ids of the events of each tick's copy of the buffer
     handed |-> <<>>,            \* observer: what the last tick passed to each program's _handle_events
     delivered |-> <<>>,         \* observer: the ids of all events passed to each program's _handle_events
     files |-> <<>>,             \* load_programs: the scripts of the directory still to load
     scripts |-> <<>>,           \* observer: the scripts of the directory
     load |-> "none",            \* load_programs: "loading", "loaded" or "failed"
     last |-> "none"]            \* observer: the last step, of the ingester or a tick

\* TickValue after reset: no produced value, no highest priority
TickValue_reset(a) == [address |-> a, produced |-> {}, highest |-> {}]

\* a pre_tick that resets the TickValues and leaves the executed flags set
pre_tick_keeps_executed(rt) ==
    [rt EXCEPT !.values = [a \in UniverseAddresses |-> TickValue_reset(a)],
               !.result = "running", !.sent = <<>>, !.run_log = <<>>]

\* Runtime::pre_tick: every program unexecuted, every TickValue reset
pre_tick(rt) ==
    [rt EXCEPT !.executed = {},
               !.values = [a \in UniverseAddresses |-> TickValue_reset(a)],
               !.result = "running", !.sent = <<>>, !.run_log = <<>>]

\* TickValue.programs_for_this_value, as positions in loaded_programs
programs_for_this_value(rt, a) ==
    {i \in DOMAIN rt.programs : a \in rt.programs[i].outputs}

\* TickValue::get_highest_priority_non_executed_program: 0 for None.
\* programs_for_this_value is sorted by priority and reversed: the first
\* unexecuted program has the highest priority and, among equals, was loaded last
get_highest_priority_non_executed_program(rt, a) ==
    LET cand == programs_for_this_value(rt, a) \ rt.executed
    IN  IF cand = {} THEN 0
        ELSE CHOOSE i \in cand :
                \A j \in cand :
                    \/ rt.programs[j].priority < rt.programs[i].priority
                    \/ rt.programs[j].priority = rt.programs[i].priority /\ j <= i

\* TickValue::has_higher_priority_program_available
has_higher_priority_program_available(rt, a) ==
    LET prog == get_highest_priority_non_executed_program(rt, a)
    IN  /\ prog # 0
        /\ \/ rt.values[a].highest = {}
           \/ \E prio \in rt.values[a].highest : prio < rt.programs[prog].priority

\* a set_value_for_priority that records the priority of the last writer as
\* the highest
set_value_for_priority_last_writer(tv, priority, value) ==
    [tv EXCEPT
       !.produced = IF \E pv \in tv.produced : pv[1] = priority
                    THEN tv.produced ELSE tv.produced \cup {<<priority, value>>},
       !.highest = {priority}]

\* the assertions of TickValue::set_value_for_priority
priority_asserted(priority) == priority <= 20 /\ priority > 0

\* TickValue::set_value_for_priority after its assertions
set_value_for_priority(tv, priority, value) ==
    [tv EXCEPT
       !.produced = IF \E pv \in tv.produced : pv[1] = priority
                    THEN tv.produced ELSE tv.produced \cup {<<priority, value>>},
       !.highest = {CHOOSE m \in tv.highest \cup {priority} :
                       \A k \in tv.highest \cup {priority} : k <= m}]

\* Runtime::apply_tick_generated_outputs
apply_tick_generated_outputs(rt, values, priority) ==
    [rt EXCEPT !.values =
        [a \in DOMAIN rt.values |->
            IF a \in DOMAIN values
            THEN set_value_for_priority(rt.values[a], priority, values[a])
            ELSE rt.values[a]]]

\* the loop of Runtime::tick: run the highest-priority unexecuted program of
\* the first address that still wants one, until no address wants one or all
\* programs were executed.  oc[p] is what the script host does for program p:
\* a failure of inject_inputs returns from tick with the error (the `?`), a
\* failure of the program's tick is logged and the loop goes on.  A program
\* that returns a value while its priority fails the assertions of
\* set_value_for_priority panics the tick.
RECURSIVE arbitrate(_, _)
arbitrate(rt, oc) ==
    LET due == {a \in DOMAIN rt.values : has_higher_priority_program_available(rt, a)}
    IN  IF due = {} THEN [rt EXCEPT !.result = "ok"]
        ELSE LET p == get_highest_priority_non_executed_program(rt, Min(due))
             IN  IF ~oc[p].inject_ok THEN [rt EXCEPT !.result = "err"]
                 ELSE LET ex  == [rt EXCEPT !.executed = @ \cup {p},
                                            !.run_log = Append(@, p)]
                          out == IF oc[p].tick_ok
                                 THEN apply_tick_generated_outputs(
                                          ex, oc[p].outputs, rt.programs[p].priority)
                                 ELSE ex
                      IN  IF /\ oc[p].tick_ok
                             /\ DOMAIN oc[p].outputs \cap DOMAIN rt.values # {}
                             /\ ~priority_asserted(rt.programs[p].priority)
                          THEN [ex EXCEPT !.result = "panic"]
                          ELSE IF out.executed = DOMAIN rt.programs
                          THEN [out EXCEPT !.result = "ok"]
                          ELSE arbitrate(out, oc)

\* TickValue::get_highest_priority_value of the addresses in as, ascending
RECURSIVE collect_values(_, _)
collect_values(rt, as) ==
    IF as = {} THEN <<>>
    ELSE LET a  == Min(as)
             tv == rt.values[a]
         IN  (IF tv.highest = {} THEN <<>>
              ELSE LET pv == CHOOSE x \in tv.produced : x[1] \in tv.highest
                   IN  <<SetRequest(a, pv[2])>>)
             \o collect_values(rt, as \ {a})

\* Runtime::post_tick_collect_values
post_tick_collect_values(rt) == collect_values(rt, DOMAIN rt.values)

\* what a program's _tick returns when it succeeds: nothing ("none"), a value
\* for each of its outputs ("own"), or a value for every address of the
\* universe ("all"); the map is applied as the script returns it
tick_outputs(prog, what) ==
    CASE what = "own" -> [a \in prog.outputs |-> 100 * prog.priority]
      [] what = "all" -> [a \in UniverseAddresses |-> 100 * prog.priority]
      [] OTHER -> <<>>

\* the entries of an EventFilter: Any, Kind Update, Kind Button{filter}
EntryAny == [type |-> "Any", kind |-> "", filter |-> ""]

EntryUpdate == [type |-> "Kind", kind |-> "Update", filter |-> ""]

EntryButton(filter) == [type |-> "Kind", kind |-> "Button", filter |-> filter]

EventFilter(strategy, entries) == [strategy |-> strategy, entries |-> entries]

\* the payloads of an event: Ok(Update{new_value}), Ok(Button(b)), Err(msg)
Update(new_value) == [tag |-> "Update", arg |-> new_value]

Button(b) == [tag |-> "Button", arg |-> b]

ErrorPayload(msg) == [tag |-> "Err", arg |-> msg]

\* a match that lets an error payload pass a Kind Update entry
match_inner_error_as_update(entry, e) ==
    IF entry.type = "Any" THEN TRUE
    ELSE IF entry.kind = "Update" THEN e.tag \in {"Update", "Err"}
    ELSE e.tag = "Button" /\ e.arg = entry.filter

\* EventFilter::match_inner
match_inner(entry, e) ==
    IF entry.type = "Any" THEN TRUE
    ELSE IF e.tag = "Err" THEN FALSE
    ELSE IF entry.kind = "Update" THEN e.tag = "Update"
    ELSE e.tag = "Button" /\ e.arg = entry.filter

\* EventFilter::matches
matches(filter, e) ==
    IF filter.strategy = "Any"
    THEN \E i \in DOMAIN filter.entries : match_inner(filter.entries[i], e)
    ELSE \A i \in DOMAIN filter.entries : match_inner(filter.entries[i], e)

\* an entry of a UniverseView: None, Some(Ok(value)), Some(Err(msg))
ViewNone == [tag |-> "None", arg |-> ""]

ViewOk(value) == [tag |-> "Ok", arg |-> value]

ViewErr(msg) == [tag |-> "Err", arg |-> msg]

\* UniverseView::new_with_addresses
new_with_addresses(addresses) == [a \in addresses |-> ViewNone]

\* UniverseView::has_address
has_address(v, address) == address \in DOMAIN v

\* an apply_event that also stores what a button event carries
apply_event_stores_buttons(v, event) ==
    IF ~has_address(v, event.address) THEN [ok |-> FALSE, v |-> v]
    ELSE [ok |-> TRUE,
          v |-> [v EXCEPT ![event.address] =
                    IF event.inner.tag = "Err" THEN ViewErr(event.inner.arg)
                    ELSE ViewOk(event.inner.arg)]]

\* UniverseView::apply_event: [ok, v]
apply_event(v, event) ==
    IF ~has_address(v, event.address) THEN [ok |-> FALSE, v |-> v]
    ELSE [ok |-> TRUE,
          v |-> CASE event.inner.tag = "Update" ->
                       [v EXCEPT ![event.address] = ViewOk(event.inner.arg)]
                  [] event.inner.tag = "Err" ->
                       [v EXCEPT ![event.address] = ViewErr(event.inner.arg)]
                  [] OTHER -> v]

\* a Program of the priority-arbitrating runtime after Program::new: its
\* event filters (a filter with strategy Any per subscribed address), its
\* own view of its inputs and its empty event buffer
ArbProgram(name, priority, outputs, inputs, event_filters) ==
    [name |-> name, priority |-> priority, outputs |-> outputs,
     event_filters |-> event_filters,
     universe_view |-> new_with_addresses(inputs),
     event_buffer |-> <<>>]

\* the loop of Program::handle_incoming_events over the drained events:
\* the program's view takes the events of its inputs and its buffer takes
\* the events that match its filter for their address
RECURSIVE buffer_matching(_, _)
buffer_matching(prog, events) ==
    IF events = <<>> THEN prog
    ELSE LET event  == Head(events)
             viewed == IF has_address(prog.universe_view, event.address)
                       THEN [prog EXCEPT !.universe_view = apply_event(@, event).v]
                       ELSE prog
             kept   == IF /\ event.address \in DOMAIN prog.event_filters
                          /\ matches(prog.event_filters[event.address], event.inner)
                       THEN [viewed EXCEPT !.event_buffer = Append(@, event)]
                       ELSE viewed
         IN  buffer_matching(kept, Tail(events))

\* Program::handle_incoming_events: [ok, program, injected]. A buffer that
\* is not empty is passed to inject_events, and is cleared when that call
\* returned Ok; events_ok is whether it does.
handle_incoming_events(prog, events, events_ok) ==
    LET p == buffer_matching(prog, events)
    IN  IF p.event_buffer = <<>> THEN [ok |-> TRUE, program |-> p, injected |-> <<>>]
        ELSE IF ~events_ok
        THEN [ok |-> FALSE, program |-> p, injected |-> p.event_buffer]
        ELSE [ok |-> TRUE, program |-> [p EXCEPT !.event_buffer = <<>>],
              injected |-> p.event_buffer]

\* a drain that copies the shared buffer and does not clear it
drain_events_keeps_buffer(rt, oc) ==
    LET events == rt.event_buffer
        h == [p \in DOMAIN rt.programs |->
                 handle_incoming_events(rt.programs[p], events, oc[p].events_ok)]
    IN  [rt EXCEPT
                   !.programs = [p \in DOMAIN rt.programs |-> h[p].program],
                   !.handed = [p \in DOMAIN rt.programs |-> h[p].injected],
                   !.delivered = [p \in DOMAIN rt.programs |->
                                     (IF p \in DOMAIN rt.delivered THEN rt.delivered[p] ELSE <<>>)
                                     \o [i \in DOMAIN h[p].injected |-> h[p].injected[i].id]],
                   !.drained = @ + Len(events),
                   !.batches = IF events = <<>> THEN @
                               ELSE Append(@, [i \in DOMAIN events |-> events[i].id])]

\* the head of Runtime::tick: the shared event buffer is copied and cleared
\* under one lock, and every program handles the copy; an error of a
\* program is logged. handed[p] lists what the tick passed to the
\* _handle_events of program p.
drain_events(rt, oc) ==
    LET events == rt.event_buffer
        h == [p \in DOMAIN rt.programs |->
                 handle_incoming_events(rt.programs[p], events, oc[p].events_ok)]
    IN  [rt EXCEPT !.event_buffer = <<>>,
                   !.programs = [p \in DOMAIN rt.programs |-> h[p].program],
                   !.handed = [p \in DOMAIN rt.programs |-> h[p].injected],
                   !.delivered = [p \in DOMAIN rt.programs |->
                                     (IF p \in DOMAIN rt.delivered THEN rt.delivered[p] ELSE <<>>)
                                     \o [i \in DOMAIN h[p].injected |-> h[p].injected[i].id]],
                   !.drained = @ + Len(events),
                   !.batches = IF events = <<>> THEN @
                               ELSE Append(@, [i \in DOMAIN events |-> events[i].id])]

\* Runtime::tick of the priority-arbitrating runtime as a function of the
\* script host's behaviour: the events are drained and handled, the loop
\* arbitrates, and the batch is sent only when the loop was not left by an
\* error and the batch is not empty
Runtime_tick(rt, oc) ==
    LET done == arbitrate(drain_events(pre_tick(rt), oc), oc)
    IN  [done EXCEPT !.sent = IF done.result = "ok"
                              THEN post_tick_collect_values(done) ELSE <<>>,
                     !.outcomes = oc,
                     !.last = "tick"]

-----------------------------------------------------------------------------
(* Initial states *)

\* the outputs every fixture script of the model declares
FixtureOutputs == {"a", "b"}

\* the add_program calls of the fixture scripts of the general specification
ProgramLists ==
    {<<>>, <<<<"SCR1", "slow">>>>, <<<<"SCR2", "fast">>>>,
     <<<<"SCR1", "slow">>, <<"SCR2", "fast">>>>,
     <<<<"SCR1", "fast">>, <<"SCR1", "slow">>>>,
     <<<<"MANUAL", "fast">>>>}

\* the fixture scripts of the general specification
SetupCalls ==
    [outputs : {FixtureOutputs},
     programs : ProgramLists,
     disable_builtin : BOOLEAN,
     disable_manual : BOOLEAN]

\* the state after Runtime::new loaded one fixture script from `scripts`;
\* a script that Fixture::new rejects ends the process at startup
InitWith(scripts) ==
    /\ \E calls \in scripts :
          /\ Fixture_new(calls).ok
          /\ fixtures = <<Fixture_new(calls).fixture>>
    /\ call = Idle
    /\ response = NoResponse
    /\ set_requests = <<>>
    /\ tick_log = <<>>
    /\ main = MainIdle
    /\ ticker = TickerIdle
    /\ arb = ArbIdle

Init == InitWith(SetupCalls) /\ watch = Watching(0, 0, FALSE)

-----------------------------------------------------------------------------
(* Control surface: program selection *)

\* handlers::post_fixtures_fixture_set_program
HttpSetProgram(f, program_name) ==
    /\ lock_available(main, call)
    /\ LET r   == set_active_program(fixtures[f], program_name)
           idx == r.fixture.current_program_index
       IN  /\ fixtures' = [fixtures EXCEPT ![f] = r.fixture]
           /\ response' = [op |-> "set_active_program", fixture |-> f,
                           status |-> IF r.status = "ok" THEN 200
                                      ELSE IF r.status = "not found" THEN 404
                                      ELSE 500,
                           body |-> program_name]
           /\ watch' = IF r.status = "ok" THEN WatchEnable(watch, f, idx + 1) ELSE watch
    /\ set_requests' = <<>>
    /\ tick_log' = <<>>
    /\ UNCHANGED <<call, main, ticker, arb>>

\* handlers::post_fixtures_fixture_cycle_program, up to the while loop of
\* Fixture::cycle_active_program
CycleStart(f) ==
    /\ lock_available(main, call)
    /\ NumPrograms(fixtures[f]) > 0
    /\ call' = [pc |-> "cycle_loop", fixture |-> f,
                next_index |-> cycle_first_index(fixtures[f]), spin |-> 0]
    /\ response' = NoResponse
    /\ set_requests' = <<>>
    /\ tick_log' = <<>>
    /\ UNCHANGED <<fixtures, watch, main, ticker, arb>>

\* one evaluation of the loop condition of Fixture::cycle_active_program: the
\* loop body, or the exit with switch_program and the reply. Indexing the
\* program list outside its bounds panics: the handler ends without a reply
\* (status 500) and leaves the fixture as it was.
CycleLoop ==
    /\ call.pc = "cycle_loop"
    /\ LET f  == call.fixture
           fx == fixtures[f]
           i  == call.next_index
       IN  IF i >= NumPrograms(fx)
           THEN /\ call' = Idle
                /\ response' = [op |-> "cycle_active_program", fixture |-> f,
                                status |-> 500, body |-> ""]
                /\ UNCHANGED <<fixtures, watch>>
           ELSE IF cycle_skips(ProgramAt(fx, i).name)
           THEN /\ call' = [call EXCEPT !.next_index = cycle_next_index(fx, i),
                                        !.spin = 1 - @]
                /\ UNCHANGED <<fixtures, response, watch>>
           ELSE LET r == switch_program(fx, i)
                IN  /\ call' = Idle
                    /\ fixtures' = [fixtures EXCEPT ![f] = r.fixture]
                    /\ response' =
                          [op |-> "cycle_active_program", fixture |-> f,
                           status |-> IF r.status = "ok" THEN 200 ELSE 500,
                           body |-> IF r.status = "ok" THEN ProgramAt(fx, i).name ELSE ""]
                    /\ watch' = IF r.status = "ok"
                                THEN WatchEnable(watch, f, i + 1) ELSE watch
    /\ UNCHANGED <<set_requests, tick_log, main, ticker, arb>>

\* handlers::get_fixtures_fixture_root: the metadata read
HttpGetFixture(f) ==
    /\ lock_available(main, call)
    /\ ValidIndex(fixtures[f])
    /\ response' = [op |-> "get_fixture", fixture |-> f, status |-> 200,
                    body |-> selected_program(fixtures[f])]
    /\ set_requests' = <<>>
    /\ tick_log' = <<>>
    /\ UNCHANGED <<fixtures, call, watch, main, ticker, arb>>

-----------------------------------------------------------------------------
(* Control surface: parameters *)

\* the 0-based index of the first level with the name, -1 if there is none
LevelPosition(levels, level) == Position(levels, level) - 1

\* a set that stores a continuous value before it checks the range
Parameter_set_stores_first(param, to) ==
    IF IsDiscrete(param)
    THEN IF to.kind = "Discrete"
         THEN IF LevelPosition(param.levels, to.level) >= 0
              THEN [ok |-> TRUE,
                    parameter |-> [param EXCEPT !.current_index =
                                      LevelPosition(param.levels, to.level)]]
              ELSE [ok |-> FALSE, parameter |-> param]
         ELSE [ok |-> FALSE, parameter |-> param]
    ELSE IF to.kind = "Continuous"
    THEN [ok |-> to.value <= param.upper_limit_incl /\ to.value >= param.lower_limit_incl,
          parameter |-> [param EXCEPT !.current = to.value]]
    ELSE [ok |-> FALSE, parameter |-> param]

\* FixtureProgramParameterType::set: [ok, parameter]
Parameter_set(param, to) ==
    IF IsDiscrete(param)
    THEN IF to.kind = "Discrete"
         THEN IF LevelPosition(param.levels, to.level) >= 0
              THEN [ok |-> TRUE,
                    parameter |-> [param EXCEPT !.current_index =
                                      LevelPosition(param.levels, to.level)]]
              ELSE [ok |-> FALSE, parameter |-> param]
         ELSE [ok |-> FALSE, parameter |-> param]
    ELSE IF to.kind = "Continuous"
    THEN IF to.value <= param.upper_limit_incl /\ to.value >= param.lower_limit_incl
         THEN [ok |-> TRUE, parameter |-> [param EXCEPT !.current = to.value]]
         ELSE [ok |-> FALSE, parameter |-> param]
    ELSE [ok |-> FALSE, parameter |-> param]

\* the name of the level at a 0-based index, "" outside the list
LevelName(levels, index) ==
    IF index + 1 \in DOMAIN levels THEN levels[index + 1].name ELSE ""

\* a cycle that steps without wrapping around
Parameter_cycle_no_wrap(param) ==
    IF ~IsDiscrete(param)
    THEN [ok |-> FALSE, parameter |-> param, level |-> ""]
    ELSE LET next == param.current_index + 1
         IN  [ok |-> TRUE,
              parameter |-> [param EXCEPT !.current_index = next],
              level |-> LevelName(param.levels, next)]

\* FixtureProgramParameterType::cycle: [ok, parameter, level]
Parameter_cycle(param) ==
    IF ~IsDiscrete(param)
    THEN [ok |-> FALSE, parameter |-> param, level |-> ""]
    ELSE LET next == (param.current_index + 1) % Len(param.levels)
         IN  [ok |-> TRUE,
              parameter |-> [param EXCEPT !.current_index = next],
              level |-> LevelName(param.levels, next)]

\* FixtureProgram::get_parameter_mut: [program, pos]: the program after the
\* call and the position of the parameter, 0 if there is none
get_parameter_mut(p, name) ==
    IF p.kind \in {"Lua", "BundledManual"}
    THEN [program |-> [p EXCEPT !.dirty_parameters = TRUE],
          pos |-> Position(p.parameters, name)]
    ELSE [program |-> p, pos |-> 0]

\* the body of handlers::post_fixtures_fixture_programs_program_parameters_parameter
\* for a fixture that exists: [status, fixture, program (position of the
\* program, 0 if none), assigned (a parameter was assigned)]
set_parameter(fx, program_name, parameter_name, to) ==
    LET ppos == Position(fx.programs, program_name)
    IN  IF ppos = 0
        THEN [status |-> 404, fixture |-> fx, program |-> 0, assigned |-> FALSE]
        ELSE LET g == get_parameter_mut(fx.programs[ppos], parameter_name)
             IN  IF g.pos = 0
                 THEN [status |-> 404,
                       fixture |-> [fx EXCEPT !.programs[ppos] = g.program],
                       program |-> ppos, assigned |-> FALSE]
                 ELSE LET r == Parameter_set(g.program.parameters[g.pos], to)
                      IN  [status |-> IF r.ok THEN 200 ELSE 400,
                           fixture |-> [fx EXCEPT !.programs[ppos] =
                                          [g.program EXCEPT !.parameters[g.pos] = r.parameter]],
                           program |-> ppos, assigned |-> r.ok]

\* the body of handlers::post_fixtures_fixture_programs_program_parameters_parameter_cycle
\* for a fixture that exists: [status, body, fixture, program (position of
\* the program, 0 if none), assigned]; every error of cycle is answered as
\* not found
cycle_parameter(fx, program_name, parameter_name) ==
    LET ppos == Position(fx.programs, program_name)
    IN  IF ppos = 0
        THEN [status |-> 404, body |-> "", fixture |-> fx, program |-> 0,
              assigned |-> FALSE]
        ELSE LET g == get_parameter_mut(fx.programs[ppos], parameter_name)
             IN  IF g.pos = 0
                 THEN [status |-> 404, body |-> "",
                       fixture |-> [fx EXCEPT !.programs[ppos] = g.program],
                       program |-> ppos, assigned |-> FALSE]
                 ELSE LET r == Parameter_cycle(g.program.parameters[g.pos])
                      IN  [status |-> IF r.ok THEN 200 ELSE 404,
                           body |-> r.level,
                           fixture |-> [fx EXCEPT !.programs[ppos] =
                                          [g.program EXCEPT !.parameters[g.pos] = r.parameter]],
                           program |-> ppos, assigned |-> r.ok]

\* ParameterSetRequest::Discrete
Discrete(level) == [kind |-> "Discrete", value |-> 0, level |-> level]

\* ParameterSetRequest::Continuous
Continuous(v) == [kind |-> "Continuous", value |-> v, level |-> ""]

\* the bodies of the requests: ParameterSetRequest
ParameterSetRequests ==
    {Continuous(v) : v \in -1..(ParamScale + 1)}
    \cup {[kind |-> "Discrete", value |-> 0, level |-> "x"]}

ProgramNames(fx) == {fx.programs[i].name : i \in DOMAIN fx.programs} \cup {"NOPE"}

\* handlers::post_fixtures_fixture_programs_program_parameters_parameter
HttpSetParameter(f, program_name, parameter_name, to) ==
    /\ lock_available(main, call)
    /\ LET r == set_parameter(fixtures[f], program_name, parameter_name, to)
       IN  /\ fixtures' = [fixtures EXCEPT ![f] = r.fixture]
           /\ response' = [op |-> "set_parameter", fixture |-> f, status |-> r.status,
                           body |-> program_name]
           /\ watch' = IF r.program # 0
                       THEN WatchTouch(watch, f, r.program, r.assigned)
                       ELSE watch
    /\ set_requests' = <<>>
    /\ tick_log' = <<>>
    /\ UNCHANGED <<call, main, ticker, arb>>

\* handlers::post_fixtures_fixture_programs_program_parameters_parameter_cycle
HttpCycleParameter(f, program_name, parameter_name) ==
    /\ lock_available(main, call)
    /\ LET r == cycle_parameter(fixtures[f], program_name, parameter_name)
       IN  /\ fixtures' = [fixtures EXCEPT ![f] = r.fixture]
           /\ response' = [op |-> "cycle_parameter", fixture |-> f, status |-> r.status,
                           body |-> r.body]
           /\ watch' = IF r.program # 0
                       THEN WatchTouch(watch, f, r.program, r.assigned)
                       ELSE watch
    /\ set_requests' = <<>>
    /\ tick_log' = <<>>
    /\ UNCHANGED <<call, main, ticker, arb>>

-----------------------------------------------------------------------------
(* The tick *)

\* the maps a script's _tick may return
TickReturns == {<<>>, (5 :> 1000) @@ (6 :> 2000), (7 :> 1)}

\* what the script host may do in one run of program p; bundled programs do
\* not use the script host
RunOutcomes(p, may_fail) ==
    IF p.kind = "Lua"
    THEN [inject : IF may_fail THEN BOOLEAN ELSE {TRUE},
          tick_ok : IF may_fail THEN BOOLEAN ELSE {TRUE},
          tick : TickReturns]
    ELSE {[inject |-> TRUE, tick_ok |-> TRUE, tick |-> <<>>]}

RECURSIVE Concat(_)
Concat(ss) == IF ss = <<>> THEN <<>> ELSE Head(ss) \o Concat(Tail(ss))

RECURSIVE WatchRuns(_, _, _)
WatchRuns(w, fs, r) ==
    IF fs = {} THEN w
    ELSE LET f == CHOOSE g \in fs : TRUE
         IN  WatchRuns(WatchRun(w, f, fixtures[f].current_program_index + 1,
                                r[f].run.result),
                       fs \ {f}, r)

\* Runtime::tick and the tick branch of main: every fixture runs its current
\* program, a failing program is logged and skipped, and the set-requests of
\* all fixtures form the batch. ocs gives the script host's behaviour and em
\* the sequence each run appended.
TickWith(ocs, em) ==
    LET r == [f \in DOMAIN fixtures |-> run_current_program(fixtures[f], ocs[f])]
    IN  /\ \A f \in DOMAIN fixtures : em[f] \in r[f].run.emissions
        /\ fixtures' = [f \in DOMAIN fixtures |-> r[f].fixture]
        /\ set_requests' = Concat(em)
        /\ tick_log' = [f \in DOMAIN fixtures |->
              [index |-> fixtures[f].current_program_index,
               result |-> r[f].run.result,
               emitted |-> em[f],
               lua_called |-> r[f].run.lua_called,
               lua_seen |-> r[f].run.lua_seen,
               watched |-> Watched(f, fixtures[f].current_program_index + 1),
               before |-> watch]]
        /\ watch' = WatchRuns(watch, DOMAIN fixtures, r)

\* the number of runs the current program has skipped in its skip period
Skipped(fx) ==
    IF CurrentProgram(fx).skip_ticks_until_next_run = 0 THEN 0
    ELSE SLOW_MODE_NUM_SKIP_TICKS - CurrentProgram(fx).skip_ticks_until_next_run

\* a tick; skip periods are explored up to max_skipped skipped runs, and the
\* script host may fail when may_fail
Tick(max_skipped, may_fail) ==
    /\ lock_available(main, call)
    /\ \A f \in DOMAIN fixtures :
          ValidIndex(fixtures[f]) /\ Skipped(fixtures[f]) < max_skipped
    /\ \E ocs \in {o \in [DOMAIN fixtures -> RunOutcomes(Program("", "Lua"), may_fail)] :
                     \A f \in DOMAIN fixtures :
                        o[f] \in RunOutcomes(CurrentProgram(fixtures[f]), may_fail)} :
          \E em \in [DOMAIN fixtures ->
                        UNION {run_current_program(fixtures[f], ocs[f]).run.emissions :
                                  f \in DOMAIN fixtures}] :
             TickWith(ocs, em)
    /\ response' = NoResponse
    /\ UNCHANGED <<call, main, ticker, arb>>

-----------------------------------------------------------------------------
(* The general specification: one fixture, program selection and ticks *)

Next ==
    \/ \E f \in DOMAIN fixtures : \E n \in ProgramNames(fixtures[f]) : HttpSetProgram(f, n)
    \/ \E f \in DOMAIN fixtures : CycleStart(f)
    \/ CycleLoop
    \/ \E f \in DOMAIN fixtures : HttpGetFixture(f)
    \/ Tick(MaxSkipped, TRUE)

Spec == Init /\ [][Next]_vars

\* the general specification with the scheduling of the handler's task: a
\* handler inside the loop of cycle_active_program keeps executing it
FairSpec == Spec /\ WF_vars(CycleLoop)

-----------------------------------------------------------------------------
(* Properties of program selection *)

Names(fx) == [i \in DOMAIN fx.programs |-> fx.programs[i].name]

Eligible(name) == name # "MANUAL" /\ name # "EXTERNAL"

\* C1: the current program index of every fixture is a valid index of its
\* program list in every reachable state, whatever set_active_program (known
\* or unknown names) and cycle_active_program calls were made, and no
\* handler panicked on an index.
C1_IndexValid ==
    /\ \A f \in DOMAIN fixtures :
          /\ 0 <= fixtures[f].current_program_index
          /\ fixtures[f].current_program_index < Len(fixtures[f].programs)
    /\ response.status # 500

\* the last program of a six-program fixture was selected by name
C1_Witness ==
    /\ response.op = "set_active_program" /\ response.status = 200
    /\ Len(fixtures[1].programs) = 6
    /\ fixtures[1].current_program_index = 5

\* C2: every cycle_active_program call on a loaded fixture returns, and the
\* name it returns is neither MANUAL nor EXTERNAL.
C2_CycleTerminates ==
    /\ (call.pc = "cycle_loop") ~> (call.pc = "idle")
    /\ [](response.op = "cycle_active_program" => Eligible(response.body))

\* C3: no loaded fixture has a program list made only of programs named
\* MANUAL or EXTERNAL: fixture loading rejects such a configuration.
C3_NoSkipOnlyFixture ==
    \A f \in DOMAIN fixtures :
       \E i \in DOMAIN fixtures[f].programs : Eligible(fixtures[f].programs[i].name)

\* the index of the first program after index `from`, in cyclic order, whose
\* name is eligible; Len(names), which is no index, when there is none
FirstEligibleAfter(names, from) ==
    LET n == Len(names)
        D == {d \in 1..n : Eligible(names[((from + d) % n) + 1])}
    IN  IF D = {} THEN n ELSE (from + Min(D)) % n

\* the effect of enable on the program at position i (1-based)
EnabledAt(fx, i) ==
    /\ fx.programs[i].kind \in {"BundledConstant", "BundledManual"} => fx.programs[i].reset
    /\ fx.programs[i].kind = "Lua" => fx.programs[i].skip_ticks_until_next_run = 0

\* the order of scenario 5: OFF, ON, EXTERNAL, MANUAL, SCR1, SCR2
Scenario5Names == <<"OFF", "ON", "EXTERNAL", "MANUAL", "SCR1", "SCR2">>

Scenario5Successor == [OFF |-> "ON", ON |-> "SCR1", SCR1 |-> "SCR2", SCR2 |-> "OFF"]

\* C4: a cycle_active_program call that returns makes active the first
\* program after the current one, in cyclic list order, whose name is neither
\* MANUAL nor EXTERNAL, has enabled it, returns its name and changes no other
\* program; in the fixture [OFF, ON, EXTERNAL, MANUAL, SCR1, SCR2] the calls
\* go OFF -> ON -> SCR1 -> SCR2 -> OFF.
C4_CycleSelectsNextEligible ==
    [][(call.pc = "cycle_loop" /\ call'.pc = "idle") =>
          LET f     == call.fixture
              names == Names(fixtures[f])
              from  == fixtures[f].current_program_index
              to    == FirstEligibleAfter(names, from)
          IN  /\ response'.op = "cycle_active_program" /\ response'.status = 200
              /\ fixtures'[f].current_program_index = to
              /\ to < Len(names)
              /\ response'.body = names[to + 1]
              /\ EnabledAt(fixtures'[f], to + 1)
              /\ \A i \in DOMAIN names :
                    i # to + 1 => fixtures'[f].programs[i] = fixtures[f].programs[i]
              /\ (names = Scenario5Names /\ Eligible(names[from + 1])) =>
                    response'.body = Scenario5Successor[names[from + 1]]
       ]_vars

\* a cycle from ON skipped EXTERNAL and MANUAL and landed on SCR1, whose skip
\* counter it cleared
C4_Witness ==
    /\ response.op = "cycle_active_program" /\ response.body = "SCR1"
    /\ Names(fixtures[1]) = Scenario5Names
    /\ fixtures[1].current_program_index = 4
    /\ fixtures[1].programs[2].reset = FALSE
    /\ fixtures[1].programs[5].skip_ticks_until_next_run = 0
    /\ fixtures[1].programs[5].lua_parameter_values # NoParameterValues

\* C5: set_active_program with a name of the fixture answers 200, makes that
\* program the active one and has enabled it; with an unknown name it answers
\* 404 and changes neither the index nor any program.
C5_SetActiveProgram ==
    [][response'.op = "set_active_program" =>
          LET f     == response'.fixture
              names == Names(fixtures[f])
              to    == response'.body
          IN  IF \E i \in DOMAIN names : names[i] = to
              THEN /\ response'.status = 200
                   /\ CurrentProgram(fixtures'[f]).name = to
                   /\ EnabledAt(fixtures'[f], fixtures'[f].current_program_index + 1)
                   /\ \A i \in DOMAIN names :
                         names[i] # to => fixtures'[f].programs[i] = fixtures[f].programs[i]
              ELSE /\ response'.status = 404
                   /\ fixtures' = fixtures
       ]_vars

\* an unknown name was refused while a program that already ran is active
C5_Witness ==
    /\ response.op = "set_active_program" /\ response.status = 404
    /\ response.body = "NOPE"
    /\ fixtures[1].current_program_index = 1
    /\ ~fixtures[1].programs[2].reset

-----------------------------------------------------------------------------
(* The bundled programs: the fixture [OFF, ON, EXTERNAL, MANUAL] with
   program selection, parameter requests and ticks; one of OFF, ON and MANUAL
   is observed *)

BundledScripts ==
    {c \in SetupCalls : c.programs = <<>> /\ ~c.disable_builtin /\ ~c.disable_manual}

InitBundled ==
    /\ InitWith(BundledScripts)
    /\ \E i \in {1, 2, 4} : watch = Watching(1, i, FALSE)

\* the parameter requests sent to a program of this fixture: every body for
\* parameter a, full scale for b and an unknown parameter
BundledRequests ==
    {<<"a", to>> : to \in ParameterSetRequests}
    \cup {<<"b", Continuous(ParamScale)>>, <<"nope", Continuous(0)>>}

NextBundled ==
    \/ \E f \in DOMAIN fixtures : \E n \in ProgramNames(fixtures[f]) : HttpSetProgram(f, n)
    \/ \E f \in DOMAIN fixtures : CycleStart(f)
    \/ CycleLoop
    \/ \E f \in DOMAIN fixtures : \E n \in ProgramNames(fixtures[f]) :
          \E rq \in BundledRequests : HttpSetParameter(f, n, rq[1], rq[2])
    \/ Tick(MaxSkipped, TRUE)

SpecBundled == InitBundled /\ [][NextBundled]_vars

\* the runs of the observed program in the last tick: its log entries
WatchedRuns == {f \in DOMAIN tick_log : tick_log[f].watched}

\* the addresses of the set-requests of a sequence, as a bag would count them
TargetCount(em, a) == Cardinality({k \in DOMAIN em : em[k].target = a})

\* C6: a run of OFF (ON) that is the first since the program was enabled
\* emits exactly one set-request per output address of the fixture, with value
\* LOW (HIGH); a later run, with no enable since the previous run, emits
\* nothing. A program that was never run behaves as if just enabled.
C6_ConstantEmitsOncePerEnable ==
    \A f \in WatchedRuns :
       LET e == tick_log[f]
           p == fixtures[f].programs[e.index + 1]
           v == IF p.name = "OFF" THEN 0 ELSE 65535
       IN  p.name \in {"OFF", "ON"} =>
              IF e.before.enabled \/ ~e.before.has_run
              THEN /\ Len(e.emitted) = Cardinality(fixtures[f].addresses)
                   /\ \A a \in fixtures[f].addresses : TargetCount(e.emitted, a) = 1
                   /\ \A k \in DOMAIN e.emitted : e.emitted[k].value = v
              ELSE e.emitted = <<>>

\* ON, which had run before, was enabled again and emitted HIGH for both
\* addresses
C6_Witness ==
    /\ WatchedRuns = {1}
    /\ fixtures[1].programs[tick_log[1].index + 1].name = "ON"
    /\ tick_log[1].before.has_run /\ tick_log[1].before.enabled
    /\ tick_log[1].emitted \in {<<SetRequest(5, 65535), SetRequest(6, 65535)>>,
                                <<SetRequest(6, 65535), SetRequest(5, 65535)>>}

\* the value MANUAL emits for a parameter holding v / ParamScale
ManualValue(v) == (2 * v * 65535 + ParamScale) \div (2 * ParamScale)

\* C7: a run of MANUAL emits set-requests if and only if the program was
\* enabled or one of its parameters was written since its previous run, and
\* when it emits it emits for every output address, in ascending address
\* order, the value its parameter maps to, and clears both flags.
C7_ManualEmitsIffEnabledOrWritten ==
    \A f \in WatchedRuns :
       LET e == tick_log[f]
           p == fixtures[f].programs[e.index + 1]
       IN  p.name = "MANUAL" /\ p.kind = "BundledManual" =>
              /\ e.emitted # <<>> <=> (e.before.enabled \/ e.before.written)
              /\ e.emitted # <<>> =>
                    /\ e.emitted = <<SetRequest(5, ManualValue(p.parameters[1].current)),
                                     SetRequest(6, ManualValue(p.parameters[2].current))>>
                    /\ ~p.reset /\ ~p.dirty_parameters

\* C10: every set-request of a tick's batch targets an output address of the
\* fixture whose program emitted it.
C10_BatchWithinFixture ==
    /\ \A f \in DOMAIN tick_log :
          \A k \in DOMAIN tick_log[f].emitted :
             tick_log[f].emitted[k].target \in fixtures[f].addresses
    /\ \A k \in DOMAIN set_requests :
          \E f \in DOMAIN fixtures : set_requests[k].target \in fixtures[f].addresses

-----------------------------------------------------------------------------
(* Slow mode: the fixture [EXTERNAL, SCR1] whose script SCR1 runs in slow
   mode; the runs of SCR1 are counted, a parameter request reaches it after
   run WriteAtRun, and it is enabled only before its first run *)

\* the number of runs of SCR1 explored
MaxSlowRuns == 2001

\* the run of SCR1 after which parameter requests arrive
WriteAtRun == 500

\* the number of runs of SCR1 in which the script host may fail
MaxFailures == 1

SlowScripts ==
    {c \in SetupCalls : c.programs = <<<<"SCR1", "slow">>>>
                        /\ c.disable_builtin /\ c.disable_manual}

InitSlow == InitWith(SlowScripts) /\ watch = Watching(1, 2, TRUE)

\* the parameter requests sent to SCR1: every body for its parameter speed
\* and an unknown parameter
SlowRequests ==
    {<<"speed", to>> : to \in ParameterSetRequests} \cup {<<"nope", Continuous(0)>>}

NextSlow ==
    \/ \E n \in ProgramNames(fixtures[1]) : watch.runs = 0 /\ HttpSetProgram(1, n)
    \/ \E rq \in SlowRequests :
          watch.runs = WriteAtRun /\ HttpSetParameter(1, "SCR1", rq[1], rq[2])
    \/ watch.runs < MaxSlowRuns
          /\ Tick(SLOW_MODE_NUM_SKIP_TICKS + 1, watch.failures < MaxFailures)

SpecSlow == InitSlow /\ [][NextSlow]_vars

-----------------------------------------------------------------------------
(* The tick loop of main: tick_ticker fires, the loop clears its Vec, locks
   the runtime, runs the tick, drops the guard, and posts the batch upstream.
   Two fixtures [EXTERNAL, SCR2]; the control surface switches programs and
   writes the parameter of SCR2 of fixture 1, which is observed. *)

\* the firings of tick_ticker that may be due at once in this specification
LoopDue == 1

\* the firings of tick_ticker that may be due at once where overruns are studied
MaxDue == 2

\* set_requests.clear() leaving the Vec as it is
clear_nothing(v) == v

\* set_requests.clear()
clear(v) == <<>>

\* set_requests.extend_from_slice(reqs)
extend_from_slice(v, reqs) == v \o reqs

\* a tick block that keeps the guard of the runtime mutex when it ends
tick_block_keeps_guard(m, reqs) ==
    [m EXCEPT !.pc = "post", !.buf = extend_from_slice(m.buf, reqs)]

\* the end of the block of main that holds the guard: the requests are copied
\* out and the guard is dropped before post_set_requests is called
tick_block_end(m, reqs) ==
    [m EXCEPT !.pc = "post", !.locked = FALSE, !.buf = extend_from_slice(m.buf, reqs)]

\* an interval of tick_ticker elapses: one more firing is due. The interval
\* is created with tokio's default behaviour for missed ticks, under which
\* every missed firing stays due; max_due bounds the firings explored. A
\* firing that is due while the loop waits in select! is taken before the
\* next interval elapses: firings pile up only while a tick or its POST is
\* under way.
IntervalElapses(max_due) ==
    /\ ticker.due < max_due
    /\ ticker.due = 0 \/ main.pc # "wait"
    /\ ticker' = [due |-> ticker.due + 1, started |-> 0]
    /\ UNCHANGED <<fixtures, call, response, set_requests, tick_log, watch, main, arb>>

\* tick_ticker.tick() completes in the select! of main: a due firing is
\* consumed and the tick branch starts by clearing the Vec
TickerFire ==
    /\ main.pc = "wait"
    /\ ticker.due > 0
    /\ ticker' = [due |-> ticker.due - 1, started |-> ticker.started + 1]
    /\ main' = [main EXCEPT !.pc = "lock", !.buf = clear(@)]
    /\ response' = NoResponse
    /\ set_requests' = <<>>
    /\ tick_log' = <<>>
    /\ UNCHANGED <<fixtures, call, watch, arb>>

\* runtime.lock().await of the tick branch returns
TickLock ==
    /\ main.pc = "lock"
    /\ lock_available(main, call)
    /\ main' = [main EXCEPT !.pc = "tick", !.locked = TRUE]
    /\ UNCHANGED <<fixtures, call, response, set_requests, tick_log, watch, ticker, arb>>

\* runtime.tick() under the guard, and the end of the block
TickCompute ==
    /\ main.pc = "tick"
    /\ \E ocs \in {o \in [DOMAIN fixtures -> RunOutcomes(Program("", "Lua"), TRUE)] :
                     \A f \in DOMAIN fixtures :
                        o[f] \in RunOutcomes(CurrentProgram(fixtures[f]), TRUE)} :
          \E em \in [DOMAIN fixtures ->
                        UNION {run_current_program(fixtures[f], ocs[f]).run.emissions :
                                  f \in DOMAIN fixtures}] :
             /\ TickWith(ocs, em)
             /\ main' = tick_block_end(main, Concat(em))
    /\ response' = NoResponse
    /\ UNCHANGED <<call, ticker, arb>>

\* post_set_requests returns, with Ok or with Err: either way the loop goes
\* back to its select!
PostReturn(ok) ==
    /\ main.pc = "post"
    /\ main' = [main EXCEPT !.pc = "wait", !.failed = ~ok]
    /\ response' = NoResponse
    /\ set_requests' = <<>>
    /\ tick_log' = <<>>
    /\ UNCHANGED <<fixtures, call, watch, ticker, arb>>

LoopScripts ==
    {c \in SetupCalls : c.programs = <<<<"SCR2", "fast">>>>
                        /\ c.disable_builtin /\ c.disable_manual}

InitLoop ==
    /\ \E c \in LoopScripts :
          fixtures = <<Fixture_new(c).fixture, Fixture_new(c).fixture>>
    /\ call = Idle
    /\ response = NoResponse
    /\ set_requests = <<>>
    /\ tick_log = <<>>
    /\ main = MainIdle
    /\ ticker = TickerIdle
    /\ arb = ArbIdle
    /\ watch = Watching(1, 2, FALSE)

\* the parameter requests sent to SCR2 of fixture 1
LoopRequests == {<<"speed", Continuous(1)>>, <<"speed", Continuous(ParamScale + 1)>>}

NextLoop ==
    \/ \E f \in DOMAIN fixtures : \E n \in {"EXTERNAL", "SCR2"} : HttpSetProgram(f, n)
    \/ \E rq \in LoopRequests : HttpSetParameter(1, "SCR2", rq[1], rq[2])
    \/ IntervalElapses(LoopDue)
    \/ TickerFire
    \/ TickLock
    \/ TickCompute
    \/ \E ok \in BOOLEAN : PostReturn(ok)

SpecLoop == InitLoop /\ [][NextLoop]_vars

-----------------------------------------------------------------------------
(* The ticks of the priority-arbitrating runtime *)

\* the program directories of the model as Runtime::load_programs returns
\* them, ordered by priority descending: a name, a priority and the output
\* addresses of each program
ArbProgramLists ==
    {<<ArbProgram("x", 2, {5}, {}, <<>>),
       ArbProgram("y", 1, {6}, {}, <<>>)>>,
     <<ArbProgram("hi", 3, {5}, {}, <<>>),
       ArbProgram("mid", 2, {5, 6}, {}, <<>>),
       ArbProgram("lo", 1, {6, 7}, {}, <<>>)>>,
     <<ArbProgram("set", 1, {5}, {}, <<>>),
       ArbProgram("unset", 0, {6}, {}, <<>>)>>}

\* what the script host may do for one program in one tick: inject_inputs
\* fails, or _tick fails, or _tick returns one of the maps of tick_outputs
ProgramOutcomes(prog) ==
    {[inject_ok |-> FALSE, tick_ok |-> TRUE, outputs |-> <<>>, events_ok |-> TRUE],
     [inject_ok |-> TRUE, tick_ok |-> FALSE, outputs |-> <<>>, events_ok |-> TRUE]}
    \cup {[inject_ok |-> TRUE, tick_ok |-> TRUE, outputs |-> tick_outputs(prog, what),
            events_ok |-> TRUE] : what \in {"none", "own", "all"}}

\* what the script host may do for each program in one tick
ArbOutcomes(programs) ==
    {oc \in [DOMAIN programs -> UNION {ProgramOutcomes(programs[p]) : p \in DOMAIN programs}] :
        \A p \in DOMAIN programs : oc[p] \in ProgramOutcomes(programs[p])}

\* Runtime::tick, called by the tick loop; a panic of a tick ends the loop
ArbTick ==
    /\ arb.programs # <<>>
    /\ arb.result # "panic"
    /\ \E oc \in ArbOutcomes(arb.programs) : arb' = Runtime_tick(arb, oc)
    /\ UNCHANGED <<fixtures, call, response, set_requests, tick_log, watch, main, ticker>>

InitArb ==
    /\ fixtures = <<>>
    /\ call = Idle
    /\ response = NoResponse
    /\ set_requests = <<>>
    /\ tick_log = <<>>
    /\ watch = Watching(0, 0, FALSE)
    /\ main = MainIdle
    /\ ticker = TickerIdle
    /\ \E ps \in ArbProgramLists : arb = [ArbIdle EXCEPT !.programs = ps]

NextArb == ArbTick

SpecArb == InitArb /\ [][NextArb]_vars

\* the behaviour of the script host in which every program that failed in oc
\* was run and produced nothing instead
FailuresAsSilence(oc) ==
    [p \in DOMAIN oc |->
        IF oc[p].inject_ok THEN oc[p]
        ELSE [oc[p] EXCEPT !.inject_ok = TRUE, !.tick_ok = FALSE]]

\* the programs whose inject_inputs fails in the tick just taken
FailedPrograms == {p \in DOMAIN arb.outcomes : ~arb.outcomes[p].inject_ok}

\* C11: a program that fails during a tick does not prevent the remaining
\* programs from being run in that tick, and their set-requests are still
\* dispatched: the tick runs the programs and sends the batch that it would
\* have run and sent had the failing programs produced nothing.
C11_FailureIsContained ==
    arb.result # "none" =>
        LET ref == Runtime_tick(arb, FailuresAsSilence(arb.outcomes))
        IN  /\ arb.executed \ FailedPrograms = ref.executed \ FailedPrograms
            /\ arb.sent = ref.sent

-----------------------------------------------------------------------------
(* Claims about the tick loop of main *)

\* the set-requests the fixtures produced in the tick just computed
ThisTickRequests == Concat([f \in DOMAIN tick_log |-> tick_log[f].emitted])

\* C12: a tick issues an upstream POST exactly when its batch is not empty:
\* whenever a POST is in flight its body is not empty and holds exactly the
\* set-requests produced in that tick.
C12_PostIffNonEmpty ==
    main.pc = "post" =>
        /\ main.buf # <<>>
        /\ tick_log # <<>> => main.buf = ThisTickRequests

\* C13: a failed upstream POST drops its batch: the loop goes back to waiting
\* for the ticker, the next tick starts with an empty Vec, and the POST that
\* follows a failed one carries exactly the set-requests produced in its own
\* tick, none of the failed batch.
C13_FailedBatchDiscarded ==
    /\ main.pc \in {"lock", "tick"} => main.buf = <<>>
    /\ main.pc = "post" /\ tick_log # <<>> => main.buf = ThisTickRequests

\* a POST failed, the following tick ran normally and its batch, which is not
\* empty, is in flight
C13_Witness ==
    /\ main.failed
    /\ main.pc = "post"
    /\ tick_log # <<>>
    /\ main.buf # <<>>

\* C14: the tick loop does not hold the runtime mutex while the upstream POST
\* is in flight, so a control-surface handler can take the mutex then.
C14_NoLockWhilePosting ==
    main.pc = "post" => ~main.locked /\ lock_available(main, call)

\* a parameter write was answered with 200 while the POST of a tick was in
\* flight
C14_Witness ==
    /\ main.pc = "post"
    /\ response.op = "set_parameter"
    /\ response.status = 200

\* the tick of this step ran a scripted program of fixture f whose parameters
\* had been written since its previous run
RunsWritten(f) ==
    /\ CurrentProgram(fixtures[f]).kind = "Lua"
    /\ CurrentProgram(fixtures[f]).dirty_parameters

-----------------------------------------------------------------------------
(* Overruns of the tick interval: one fixture [EXTERNAL, SCR2], the tick loop
   and the ticker, whose periods may elapse while a tick or its POST is still
   under way *)

InitBurst ==
    /\ \E c \in LoopScripts : fixtures = <<Fixture_new(c).fixture>>
    /\ call = Idle
    /\ response = NoResponse
    /\ set_requests = <<>>
    /\ tick_log = <<>>
    /\ main = MainIdle
    /\ ticker = TickerIdle
    /\ arb = ArbIdle
    /\ watch = Watching(1, 2, FALSE)

NextBurst ==
    \/ \E n \in {"EXTERNAL", "SCR2"} : HttpSetProgram(1, n)
    \/ IntervalElapses(MaxDue)
    \/ TickerFire
    \/ TickLock
    \/ TickCompute
    \/ \E ok \in BOOLEAN : PostReturn(ok)

SpecBurst == InitBurst /\ [][NextBurst]_vars

\* C16: firings of the ticker missed during an overrun are dropped: the loop
\* never starts more than one tick between two elapsed intervals.
C16_NoCatchUpBurst == ticker.started <= 1

-----------------------------------------------------------------------------
(* The parameters of a scripted program: one fixture whose script adds the
   program SCR1 from one of the scripts on disk; the control surface sets
   and cycles its parameters *)

\* the scripts SCR1 is loaded from
ParamSources == {"modes", "single", "nolevels", "twice", "above"}

ParamScripts ==
    [outputs : {FixtureOutputs},
     programs : {<<<<"SCR1", s>>>> : s \in ParamSources},
     disable_builtin : {TRUE},
     disable_manual : {TRUE}]

InitParams == InitWith(ParamScripts) /\ watch = Watching(1, 2, FALSE)

\* the bodies of the parameter requests
ParamRequests ==
    {Continuous(v) : v \in -1..(ParamScale + 1)}
    \cup {Discrete(l) : l \in {"L0", "L1", "L2", "LX"}}

\* the parameter names of the requests
ParamNames == {"mode", "speed", "nope"}

NextParams ==
    \/ \E n \in ParamNames : \E to \in ParamRequests :
          HttpSetParameter(1, "SCR1", n, to)
    \/ \E n \in ParamNames : HttpCycleParameter(1, "SCR1", n)
    \/ \E n \in {"EXTERNAL", "SCR1"} : HttpSetProgram(1, n)
    \/ Tick(MaxSkipped, TRUE)

SpecParams == InitParams /\ [][NextParams]_vars

\* the parameters of all programs of all fixtures
AllParameters ==
    UNION {UNION {Range(fixtures[f].programs[i].parameters) :
                     i \in DOMAIN fixtures[f].programs} :
              f \in DOMAIN fixtures}

\* C17: every continuous parameter has lower_limit_incl <= current <=
\* upper_limit_incl in every reachable state, from its declaration on.
C17_ContinuousInRange ==
    \A param \in AllParameters :
        ~IsDiscrete(param) =>
            /\ param.lower_limit_incl <= param.current
            /\ param.current <= param.upper_limit_incl

\* C18: every discrete parameter has at least one level and a current_index
\* that is an index of its levels, in every reachable state.
C18_DiscreteIndexValid ==
    \A param \in AllParameters :
        IsDiscrete(param) =>
            /\ Len(param.levels) >= 1
            /\ 0 <= param.current_index
            /\ param.current_index < Len(param.levels)

\* a cycle has just moved a discrete parameter with several levels to its
\* last level
C18_Witness ==
    /\ response.op = "cycle_parameter"
    /\ response.status = 200
    /\ \E param \in AllParameters :
          /\ IsDiscrete(param)
          /\ Len(param.levels) >= 2
          /\ param.current_index = Len(param.levels) - 1

\* whether a set of param to the request `to` must fail: a value outside the
\* limits, a level that is not declared, or a request of the other variant
MustFail(param, to) ==
    IF IsDiscrete(param)
    THEN to.kind # "Discrete" \/ \A i \in DOMAIN param.levels : param.levels[i].name # to.level
    ELSE \/ to.kind # "Continuous"
         \/ to.value < param.lower_limit_incl
         \/ to.value > param.upper_limit_incl

\* the parameters of every program of every fixture, by position
ParametersOf(fs) ==
    [f \in DOMAIN fs |-> [i \in DOMAIN fs[f].programs |-> fs[f].programs[i].parameters]]

\* C19: a failing parameter operation returns an error and leaves the
\* parameter as it was: a continuous value outside the limits, an unknown
\* level, a request of the other variant, the cycle of a continuous
\* parameter; a continuous value equal to a limit is accepted and stored.
\* A request answered with an error status leaves every parameter as it was.
C19_FailedOperationChangesNothing ==
    [][/\ \A param \in AllParameters : \A to \in ParamRequests :
             /\ MustFail(param, to) =>
                   /\ ~Parameter_set(param, to).ok
                   /\ Parameter_set(param, to).parameter = param
             /\ ~MustFail(param, to) => Parameter_set(param, to).ok
             /\ /\ ~IsDiscrete(param)
                /\ to.kind = "Continuous"
                /\ to.value \in {param.lower_limit_incl, param.upper_limit_incl}
                => /\ Parameter_set(param, to).ok
                   /\ Parameter_set(param, to).parameter.current = to.value
       /\ \A param \in AllParameters :
             ~IsDiscrete(param) =>
                /\ ~Parameter_cycle(param).ok
                /\ Parameter_cycle(param).parameter = param
       /\ /\ response'.op \in {"set_parameter", "cycle_parameter"}
          /\ response'.status # 200
          => ParametersOf(fixtures') = ParametersOf(fixtures)]_vars

\* a set of an existing parameter has just been refused
C19_Witness ==
    /\ response.op = "set_parameter"
    /\ response.status = 400

\* param after k cycles and the names those cycles returned
RECURSIVE CycleTimes(_, _)
CycleTimes(param, k) ==
    IF k = 0 THEN [parameter |-> param, names |-> <<>>]
    ELSE LET r == Parameter_cycle(param)
             t == CycleTimes(r.parameter, k - 1)
         IN  [parameter |-> t.parameter, names |-> <<r.level>> \o t.names]

\* the discrete parameter "mode" of SCR1 in a list of fixtures
ModeOf(fs) ==
    LET ps == fs[1].programs[Position(fs[1].programs, "SCR1")].parameters
    IN  ps[Position(ps, "mode")]

\* C20: cycle on a discrete parameter with n levels sets current_index to
\* (current_index + 1) mod n and returns the name of the new current level;
\* n cycles return the levels in declaration order starting after the
\* current one and leave the parameter where it started.
C20_CycleAdvancesModulo ==
    [][/\ \A param \in AllParameters :
             IsDiscrete(param) =>
                LET n == Len(param.levels)
                    r == CycleTimes(param, n)
                IN  /\ r.parameter = param
                    /\ \A k \in 1..n :
                          r.names[k] =
                             param.levels[((param.current_index + k) % n) + 1].name
       /\ /\ response'.op = "cycle_parameter"
          /\ response'.status = 200
          => LET old == ModeOf(fixtures)
                 new == ModeOf(fixtures')
             IN  /\ new.current_index = (old.current_index + 1) % Len(old.levels)
                 /\ new.levels = old.levels
                 /\ response'.body = new.levels[new.current_index + 1].name]_vars

\* a cycle of the parameter with levels [L0, L1, L2] has just wrapped around
\* and returned L0
C20_Witness ==
    /\ response.op = "cycle_parameter"
    /\ response.status = 200
    /\ response.body = "L0"
    /\ \E param \in AllParameters :
          /\ IsDiscrete(param)
          /\ Len(param.levels) = 3
          /\ param.current_index = 0

\* whether the program and the parameter of a request exist in the fixture
ParameterExists(fx, program_name, parameter_name) ==
    /\ Position(fx.programs, program_name) # 0
    /\ Position(fx.programs[Position(fx.programs, program_name)].parameters,
                parameter_name) # 0

\* C21: a cycle request on an existing continuous parameter is answered with
\* 400, and 404 is returned only when the program or the parameter does not
\* exist.
C21_CycleContinuousIs400 ==
    \A f \in DOMAIN fixtures : \A pn \in ProgramNames(fixtures[f]) : \A n \in ParamNames :
        LET r == cycle_parameter(fixtures[f], pn, n)
        IN  /\ r.status = 404 => ~ParameterExists(fixtures[f], pn, n)
            /\ /\ ParameterExists(fixtures[f], pn, n)
               /\ ~r.assigned
               => r.status = 400

-----------------------------------------------------------------------------
(* Events in the priority-arbitrating runtime: the ingester
   (handle_incoming_events_loop) applies upstream events to the universe
   view and enqueues them; a tick drains the queue and hands each program
   the events its filters match *)

\* the number of events the ingester receives
MaxEvents == 2

\* VecDeque::push_front instead of push_back
push_front(buf, event) == <<event>> \o buf

\* VecDeque::push_back
push_back(buf, event) == Append(buf, event)

\* a Config message that the loop ignores
on_config_ignored(rt) == [rt EXCEPT !.config_seen = TRUE, !.last = "config"]

\* the else branch of handle_incoming_events_loop: a message that is not an
\* event ends the loop
on_config(rt) ==
    [rt EXCEPT !.ingester = "done", !.config_seen = TRUE, !.last = "config"]

\* the payloads upstream sends
Payloads ==
    {Update("v1"), Update("v2"), Button("Clicked"), Button("Down"), ErrorPayload("e")}

\* the events upstream sends, without their arrival number; address 9 is not
\* in the universe
EventInputs ==
    [address : {5}, inner : {Update("v1"), Button("Clicked"), ErrorPayload("e")}]
    \cup [address : {6}, inner : {Button("Down")}]
    \cup [address : {9}, inner : {Update("v1")}]

\* the ingester receives an event: the counter is incremented and the event
\* is applied to the universe view; an event that cannot be applied panics
\* the task
IngestEvent ==
    /\ arb.ingester = "running"
    /\ arb.pending = <<>>
    /\ arb.events_processed < MaxEvents
    /\ \E ev \in EventInputs :
          LET event == [id |-> arb.events_processed + 1, address |-> ev.address,
                        inner |-> ev.inner]
              r == apply_event(arb.universe_view, event)
          IN  arb' = IF r.ok
                     THEN [arb EXCEPT !.events_processed = @ + 1,
                                      !.universe_view = r.v,
                                      !.pending = <<event>>,
                                      !.arrived = Append(@, event),
                                      !.last = "apply"]
                     ELSE [arb EXCEPT !.events_processed = @ + 1,
                                      !.ingester = "panicked",
                                      !.last = "apply"]
    /\ UNCHANGED <<fixtures, call, response, set_requests, tick_log, watch, main, ticker>>

\* the ingester appends the event it applied to the shared buffer
IngestPush ==
    /\ arb.ingester = "running"
    /\ arb.pending # <<>>
    /\ arb' = [arb EXCEPT !.event_buffer = push_back(@, arb.pending[1]),
                          !.pending = <<>>,
                          !.last = "push"]
    /\ UNCHANGED <<fixtures, call, response, set_requests, tick_log, watch, main, ticker>>

\* the ingester receives a Config message
IngestConfig ==
    /\ arb.ingester = "running"
    /\ arb.pending = <<>>
    /\ ~arb.config_seen
    /\ arb' = on_config(arb)
    /\ UNCHANGED <<fixtures, call, response, set_requests, tick_log, watch, main, ticker>>

\* the retries explored for a program whose _handle_events fails
MaxHanded == 2

\* what the script host may do in a tick of this specification: the programs
\* run and produce nothing, _handle_events may fail
EventOutcomes(rt) ==
    {[p \in DOMAIN rt.programs |->
         [inject_ok |-> TRUE, tick_ok |-> TRUE, outputs |-> <<>>,
          events_ok |-> c[p]]] :
       c \in {d \in [DOMAIN rt.programs -> BOOLEAN] :
                \A p \in DOMAIN rt.programs :
                   d[p] \/ (p \in DOMAIN rt.delivered => Len(rt.delivered[p]) < MaxHanded)}}

\* Runtime::tick, called by the tick loop
EventTick ==
    /\ \E oc \in EventOutcomes(arb) : arb' = Runtime_tick(arb, oc)
    /\ UNCHANGED <<fixtures, call, response, set_requests, tick_log, watch, main, ticker>>

\* the programs of this specification: btn subscribes to button_clicked on
\* input 5; upd to update on input 5 and to update and button_down on input 6
EventPrograms ==
    <<ArbProgram("btn", 2, {7}, {5},
                 (5 :> EventFilter("Any", <<EntryButton("Clicked")>>))),
      ArbProgram("upd", 1, {7}, {5, 6},
                 (5 :> EventFilter("Any", <<EntryUpdate>>))
                 @@ (6 :> EventFilter("Any", <<EntryButton("Down"), EntryUpdate>>)))>>

InitEvents ==
    /\ fixtures = <<>>
    /\ call = Idle
    /\ response = NoResponse
    /\ set_requests = <<>>
    /\ tick_log = <<>>
    /\ watch = Watching(0, 0, FALSE)
    /\ main = MainIdle
    /\ ticker = TickerIdle
    /\ arb = [ArbIdle EXCEPT !.programs = EventPrograms,
                             !.universe_view = new_with_addresses(UniverseAddresses),
                             !.delivered = [p \in DOMAIN EventPrograms |-> <<>>]]

NextEvents ==
    \/ IngestEvent
    \/ IngestPush
    \/ IngestConfig
    \/ EventTick

SpecEvents == InitEvents /\ [][NextEvents]_vars

\* the filter entries and the filters of the claims
FilterEntries ==
    {EntryAny, EntryUpdate} \cup {EntryButton(f) : f \in {"Down", "Up", "Clicked", "LongPress"}}

Filters ==
    [strategy : {"Any", "All"}, entries : SeqsUpTo(FilterEntries, 2)]

\* the payloads of the claims
AllPayloads ==
    Payloads \cup {Button("Up"), Button("LongPress")}

\* whether an entry matches a payload, as the filter language defines it
EntryMatches(entry, e) ==
    \/ entry = EntryAny
    \/ entry = EntryUpdate /\ e.tag = "Update"
    \/ entry.kind = "Button" /\ e.tag = "Button" /\ e.arg = entry.filter

\* whether matches and match_inner agree with the filter language on every
\* filter of up to two entries and every payload
FilterSemantics ==
    \A filter \in Filters : \A e \in AllPayloads :
        /\ matches(filter, e) <=>
              IF filter.strategy = "Any"
              THEN \E i \in DOMAIN filter.entries : EntryMatches(filter.entries[i], e)
              ELSE \A i \in DOMAIN filter.entries : EntryMatches(filter.entries[i], e)
        /\ e.tag = "Err" =>
              \A entry \in FilterEntries \ {EntryAny} : ~match_inner(entry, e)

\* C22: EventFilter.matches is true iff, under strategy Any, at least one
\* entry matches and, under strategy All, every entry matches; entry Any
\* matches every event, Kind Update only an update, Kind Button{F} only a
\* button event of variant F, and an error payload matches no Kind entry;
\* so an event a tick hands to a program matches an entry of the program's
\* filter for its address.
C22_FilterMatches ==
    /\ FilterSemantics
    /\ \A p \in DOMAIN arb.handed : \A i \in DOMAIN arb.handed[p] :
          LET event == arb.handed[p][i]
              entries == arb.programs[p].event_filters[event.address].entries
          IN  \E k \in DOMAIN entries : EntryMatches(entries[k], event.inner)

\* a tick has just handed a button_clicked event to btn and nothing to upd,
\* whose filter for the address does not match it
C22_Witness ==
    /\ arb.last = "tick"
    /\ arb.handed # <<>>
    /\ \E i \in DOMAIN arb.handed[1] : arb.handed[1][i].inner = Button("Clicked")
    /\ arb.handed[2] = <<>>

\* the entry the latest Update or error event for an address leaves
LatestValue(events, a) ==
    LET idx == {i \in DOMAIN events :
                   events[i].address = a /\ events[i].inner.tag \in {"Update", "Err"}}
    IN  IF idx = {} THEN ViewNone
        ELSE LET i == CHOOSE j \in idx : \A k \in idx : k <= j
             IN  IF events[i].inner.tag = "Update" THEN ViewOk(events[i].inner.arg)
                 ELSE ViewErr(events[i].inner.arg)

\* the ingested events no tick has drained yet
NotYetDrained == SubSeq(arb.arrived, arb.drained + 1, Len(arb.arrived))

\* C23: the ingester applies events to the universe view and appends them
\* to the shared buffer in arrival order: every address holds the value or
\* error of the latest Update or error event for it, and the buffer lists
\* the events not yet drained in arrival order (the event being ingested is
\* applied before it is appended).
C23_IngestInArrivalOrder ==
    /\ \A a \in DOMAIN arb.universe_view :
          arb.universe_view[a] = LatestValue(arb.arrived, a)
    /\ arb.event_buffer \o arb.pending = NotYetDrained
    /\ arb.pending = <<>> => arb.event_buffer = NotYetDrained

\* two events for address 5 were ingested and wait in the buffer; the view
\* holds the error of the second, not the value of the first
C23_Witness ==
    /\ Len(arb.event_buffer) = 2
    /\ arb.event_buffer[1].inner = Update("v1")
    /\ arb.event_buffer[2].inner = ErrorPayload("e")
    /\ arb.event_buffer[1].address = 5 /\ arb.event_buffer[2].address = 5
    /\ arb.universe_view[5] = ViewErr("e")

\* whether a sequence lists no element twice
NoDuplicates(s) == \A i, j \in DOMAIN s : s[i] = s[j] => i = j

\* whether program p subscribed to the event: it has a filter for the
\* address and the filter matches
Subscribed(p, event) ==
    /\ event.address \in DOMAIN arb.programs[p].event_filters
    /\ matches(arb.programs[p].event_filters[event.address], event.inner)

\* C24: every ingested event that matches a program's filter for its address
\* is passed to the program's event handling exactly once, in arrival order,
\* by the tick that drains it, and an event that does not match is never
\* passed to it.
C24_DeliveredExactlyOnce ==
    \A p \in DOMAIN arb.programs :
        /\ NoDuplicates(arb.delivered[p])
        /\ \A i, j \in DOMAIN arb.delivered[p] :
              i < j => arb.delivered[p][i] < arb.delivered[p][j]
        /\ \A i \in DOMAIN arb.arrived :
              (\E k \in DOMAIN arb.delivered[p] : arb.delivered[p][k] = arb.arrived[i].id)
                 <=> (i <= arb.drained /\ Subscribed(p, arb.arrived[i]))

\* C25: once the ingester has received a Config message, no step changes the
\* universe view or the events-processed counter, and the event buffer only
\* changes by being drained by a tick; the counter never decreases.
C25_ConfigTerminatesIngester ==
    [][/\ arb'.events_processed >= arb.events_processed
       /\ arb.config_seen =>
             /\ arb'.universe_view = arb.universe_view
             /\ arb'.events_processed = arb.events_processed
             /\ arb'.event_buffer \in {arb.event_buffer, <<>>}
             /\ arb'.event_buffer # arb.event_buffer => arb'.last = "tick"]_vars

\* the ingester received an event and then a Config message, and a tick was
\* executed afterwards
C25_Witness ==
    /\ arb.config_seen
    /\ arb.ingester = "done"
    /\ arb.events_processed = 1
    /\ arb.events_processed < MaxEvents
    /\ arb.last = "tick"

\* the universe views of a state: the runtime's and the programs'
Views == {arb.universe_view} \cup {arb.programs[p].universe_view : p \in DOMAIN arb.programs}

\* the events of the claim about apply_event; address 9 is in no view
AddressedEvents == [address : UniverseAddresses \cup {9}, inner : AllPayloads]

\* C26: apply_event changes only the entry of the event's address: an Update
\* replaces it with the new value, an error payload with the error string, a
\* Button event changes nothing; the addresses of the view never change, and
\* an event for an address that is not in the view is an error that changes
\* nothing.
C26_ApplyEventFrame ==
    \A v \in Views : \A event \in AddressedEvents :
        LET r == apply_event(v, event)
        IN  /\ DOMAIN r.v = DOMAIN v
            /\ ~has_address(v, event.address) => ~r.ok /\ r.v = v
            /\ has_address(v, event.address) =>
                  /\ r.ok
                  /\ \A a \in DOMAIN v \ {event.address} : r.v[a] = v[a]
                  /\ r.v[event.address] =
                        CASE event.inner.tag = "Update" -> ViewOk(event.inner.arg)
                          [] event.inner.tag = "Err" -> ViewErr(event.inner.arg)
                          [] OTHER -> v[event.address]

\* an Update and then a Button event for address 5 were ingested: the view
\* still holds the value of the Update
C26_Witness ==
    /\ Len(arb.arrived) = 2
    /\ arb.arrived[1].address = 5 /\ arb.arrived[1].inner = Update("v1")
    /\ arb.arrived[2].address = 5 /\ arb.arrived[2].inner = Button("Clicked")
    /\ arb.universe_view[5] = ViewOk("v1")
    /\ arb.pending = <<>>

\* the names of the program list the claim describes for a fixture script
ExpectedNames(calls) ==
    (IF ~calls.disable_builtin THEN <<"OFF", "ON">> ELSE <<>>)
    \o <<"EXTERNAL">>
    \o (IF ~calls.disable_manual THEN <<"MANUAL">> ELSE <<>>)
    \o [i \in DOMAIN calls.programs |-> calls.programs[i][1]]

\* C27: the program list of a loaded fixture is OFF and ON (iff builtin
\* programs are not disabled), EXTERNAL, MANUAL (iff not disabled), then the
\* scripted programs in add_program order; current_program_index starts at
\* 0, so the initially active program is OFF, or EXTERNAL when builtins are
\* disabled; and the list of a running fixture is still the list it was
\* loaded with.
C27_ProgramListOrder ==
    /\ \A calls \in SetupCalls :
          LET r == Fixture_new(calls)
          IN  r.ok =>
                 /\ Names(r.fixture) = ExpectedNames(calls)
                 /\ r.fixture.current_program_index = 0
                 /\ r.fixture.programs[1].name =
                       IF calls.disable_builtin THEN "EXTERNAL" ELSE "OFF"
    /\ \A f \in DOMAIN fixtures :
          \E calls \in SetupCalls :
             Fixture_new(calls).ok /\ Names(fixtures[f]) = ExpectedNames(calls)

\* a fixture loaded with builtin programs and two scripted ones, before any
\* request selected another program
C27_Witness ==
    /\ fixtures # <<>>
    /\ Names(fixtures[1]) = <<"OFF", "ON", "EXTERNAL", "MANUAL", "SCR1", "SCR2">>
    /\ fixtures[1].current_program_index = 0
    /\ call = Idle /\ response = NoResponse

\* C28: program names are unique within every loaded fixture: a second
\* add_program with a name already declared fails setup, and a scripted
\* program named like a builtin program that is in the list makes loading
\* fail.
C28_UniqueProgramNames ==
    /\ \A f \in DOMAIN fixtures : NoDuplicates(Names(fixtures[f]))
    /\ \A calls \in SetupCalls :
          LET scripted == [i \in DOMAIN calls.programs |-> calls.programs[i][1]]
              builtin == {ExpectedNames(calls)[i] :
                            i \in 1..(Len(ExpectedNames(calls)) - Len(scripted))}
          IN  /\ ~NoDuplicates(scripted) => ~setup(calls).ok /\ ~Fixture_new(calls).ok
              /\ (\E i \in DOMAIN scripted : scripted[i] \in builtin) => ~Fixture_new(calls).ok
              /\ Fixture_new(calls).ok => NoDuplicates(Names(Fixture_new(calls).fixture))

\* a fixture loaded with the bundled MANUAL disabled and a scripted program
\* named MANUAL: the name is in the list once
C28_Witness ==
    /\ fixtures # <<>>
    /\ \E i \in DOMAIN fixtures[1].programs :
          fixtures[1].programs[i].name = "MANUAL" /\ fixtures[1].programs[i].kind = "Lua"

-----------------------------------------------------------------------------
(* Loading the programs of the priority-arbitrating runtime: Program::setup
   runs the script's setup(), which may call set_priority *)

\* the set_priority calls explored per script
MaxPriorityCalls == 2

\* the priorities 0..20 are accepted
MAX_PRIORITY == 20

\* the values of a u8
U8 == 0..255

\* a set_priority that accepts 21
set_priority_accepts_21(priority, prio) ==
    IF prio \notin U8 THEN [ok |-> FALSE, priority |-> priority]
    ELSE IF prio > MAX_PRIORITY + 1 THEN [ok |-> FALSE, priority |-> priority]
    ELSE [ok |-> TRUE, priority |-> prio]

\* the set_priority closure of Program::setup: [ok, priority]. The argument
\* is converted to u8, which fails for a number that is not in 0..255.
set_priority(priority, prio) ==
    IF prio \notin U8 THEN [ok |-> FALSE, priority |-> priority]
    ELSE IF prio > MAX_PRIORITY THEN [ok |-> FALSE, priority |-> priority]
    ELSE [ok |-> TRUE, priority |-> prio]

\* the set_priority calls of a script's setup(), in order; an error of a
\* call ends setup()
RECURSIVE run_setup(_, _)
run_setup(priority, calls) ==
    IF calls = <<>> THEN [ok |-> TRUE, priority |-> priority]
    ELSE LET r == set_priority(priority, Head(calls))
         IN  IF ~r.ok THEN r ELSE run_setup(r.priority, Tail(calls))

\* Program::setup: the priority starts at 0
Program_setup(script) == run_setup(0, script.calls)

\* Program::new: [ok, program]
Program_new(script) ==
    LET setup_values == Program_setup(script)
    IN  [ok |-> setup_values.ok,
         program |-> ArbProgram(script.name, setup_values.priority, {}, {}, <<>>)]

\* sorted_by_key(|p| p.priority).rev(): highest priority first; the stable
\* sort reversed puts the later of two equal priorities first
RECURSIVE sorted_by_priority_rev(_)
sorted_by_priority_rev(programs) ==
    IF programs = <<>> THEN <<>>
    ELSE LET i == CHOOSE k \in DOMAIN programs :
                     \A j \in DOMAIN programs :
                        \/ programs[j].priority < programs[k].priority
                        \/ programs[j].priority = programs[k].priority /\ j <= k
         IN  <<programs[i]>>
             \o sorted_by_priority_rev(
                   [j \in 1..(Len(programs) - 1) |->
                       IF j < i THEN programs[j] ELSE programs[j + 1]])

\* the arguments scripts pass to set_priority
PriorityArgs == {-1, 0, 7, 20, 21, 255}

\* the names of the .lua files of the program directory
ProgramFiles == <<"a", "b">>

\* the contents of the program directory
Directories ==
    {[i \in DOMAIN ProgramFiles |-> [name |-> ProgramFiles[i], calls |-> c[i]]] :
        c \in [DOMAIN ProgramFiles -> SeqsUpTo(PriorityArgs, MaxPriorityCalls)]}

\* the loop of load_programs: the next file is loaded; an error ends
\* load_programs and with it Runtime::new
LoadNext ==
    /\ arb.load = "loading"
    /\ arb.files # <<>>
    /\ LET p == Program_new(Head(arb.files))
       IN  arb' = IF p.ok
                  THEN [arb EXCEPT !.programs = Append(@, p.program),
                                   !.files = Tail(@)]
                  ELSE [arb EXCEPT !.load = "failed"]
    /\ UNCHANGED <<fixtures, call, response, set_requests, tick_log, watch, main, ticker>>

\* the end of load_programs: the programs are returned sorted
LoadDone ==
    /\ arb.load = "loading"
    /\ arb.files = <<>>
    /\ arb' = [arb EXCEPT !.programs = sorted_by_priority_rev(@),
                          !.load = "loaded"]
    /\ UNCHANGED <<fixtures, call, response, set_requests, tick_log, watch, main, ticker>>

InitLoad ==
    /\ fixtures = <<>>
    /\ call = Idle
    /\ response = NoResponse
    /\ set_requests = <<>>
    /\ tick_log = <<>>
    /\ watch = Watching(0, 0, FALSE)
    /\ main = MainIdle
    /\ ticker = TickerIdle
    /\ \E dir \in Directories :
          arb = [ArbIdle EXCEPT !.files = dir, !.scripts = dir, !.load = "loading"]

NextLoad ==
    \/ LoadNext
    \/ LoadDone

SpecLoad == InitLoad /\ [][NextLoad]_vars

\* the script a loaded program came from
ScriptOf(name) == arb.scripts[CHOOSE i \in DOMAIN arb.scripts : arb.scripts[i].name = name]

\* C29: set_priority(p) for a u8 p is accepted iff p <= 20 and then sets the
\* priority; a call with p > 20 fails the load of the program; a program
\* whose setup never calls set_priority has priority 0.
C29_SetPriority ==
    /\ \A p \in PriorityArgs \cap U8 : \A q \in 0..MAX_PRIORITY :
          /\ set_priority(q, p).ok <=> p <= 20
          /\ set_priority(q, p).ok => set_priority(q, p).priority = p
    /\ \A i \in DOMAIN arb.programs :
          LET calls == ScriptOf(arb.programs[i].name).calls
          IN  /\ \A k \in DOMAIN calls : calls[k] <= 20
              /\ arb.programs[i].priority = IF calls = <<>> THEN 0 ELSE calls[Len(calls)]
    /\ arb.load = "failed" =>
          \E k \in DOMAIN Head(arb.files).calls : Head(arb.files).calls[k] \notin 0..20
    /\ \A i \in DOMAIN arb.scripts :
          (\E k \in DOMAIN arb.scripts[i].calls : arb.scripts[i].calls[k] > 20)
             => \A j \in DOMAIN arb.programs : arb.programs[j].name # arb.scripts[i].name

\* the directory was loaded: a never calls set_priority and has priority 0,
\* b called set_priority(20); and a directory whose b calls set_priority(21)
\* failed to load
C29_Witness ==
    /\ arb.load = "loaded"
    /\ Len(arb.programs) = 2
    /\ arb.programs[1].name = "b" /\ arb.programs[1].priority = 20
    /\ arb.programs[2].name = "a" /\ arb.programs[2].priority = 0
    /\ ScriptOf("a").calls = <<>>
    /\ ScriptOf("b").calls = <<7, 20>>

\* the programs that were executed in the last tick and whose _tick returned
\* a value for address a
Producers(a) ==
    {p \in arb.executed : arb.outcomes[p].tick_ok /\ a \in DOMAIN arb.outcomes[p].outputs}

\* the set requests of the last tick for address a
SentFor(a) == {i \in DOMAIN arb.sent : arb.sent[i].target = a}

\* C30: at the end of every tick of the priority-arbitrating runtime, the
\* set request emitted for an address carries the value written by the
\* highest-priority program that produced a value for the address in the
\* tick (and there is one request iff a program produced one), and no
\* program that declares the address as output and has a strictly higher
\* priority than the emitted value's was left unexecuted.
C30_HighestPriorityWins ==
    (arb.last = "tick" /\ arb.result = "ok") =>
        \A a \in UniverseAddresses :
            /\ Producers(a) = {} <=> SentFor(a) = {}
            /\ Cardinality(SentFor(a)) <= 1
            /\ \A i \in SentFor(a) :
                  \E p \in Producers(a) :
                     /\ arb.sent[i].value = arb.outcomes[p].outputs[a]
                     /\ \A q \in Producers(a) :
                           arb.programs[q].priority <= arb.programs[p].priority
                     /\ \A q \in DOMAIN arb.programs \ arb.executed :
                           a \in arb.programs[q].outputs
                              => arb.programs[q].priority <= arb.programs[p].priority

\* hi wrote address 5 and mid, run for address 6, wrote 5 and 6: the request
\* for 5 carries hi's value, and lo was not executed for 6 but ran for 7
C30_Witness ==
    /\ arb.last = "tick"
    /\ arb.result = "ok"
    /\ Len(arb.programs) = 3
    /\ arb.executed = {1, 2, 3}
    /\ Producers(5) = {1, 2}
    /\ \E i \in SentFor(5) : arb.sent[i].value = 300
    /\ \E i \in SentFor(6) : arb.sent[i].value = 200
    /\ \E i \in SentFor(7) : arb.sent[i].value = 100

-----------------------------------------------------------------------------
(* Claims about the arbitration loop and the priorities of the programs *)

\* C31: the arbitration loop of every tick terminates and executes each
\* loaded program at most once in the tick; the executed flags and the
\* produced values of the previous tick are cleared before the next tick:
\* the flags set after a tick are those of the programs this tick ran, and
\* every produced value was returned by a program this tick ran.
C31_TickRunsEachProgramOnce ==
    arb.last = "tick" =>
        /\ arb.result \in {"ok", "err", "panic"}
        /\ NoDuplicates(arb.run_log)
        /\ Len(arb.run_log) <= Len(arb.programs)
        /\ Range(arb.run_log) = arb.executed
        /\ \A a \in DOMAIN arb.values : \A pv \in arb.values[a].produced :
              \E p \in arb.executed :
                 /\ arb.programs[p].priority = pv[1]
                 /\ arb.outcomes[p].tick_ok
                 /\ a \in DOMAIN arb.outcomes[p].outputs
                 /\ arb.outcomes[p].outputs[a] = pv[2]

\* a tick ran hi for address 5, mid for address 6 and lo for address 7, each
\* once
C31_Witness ==
    /\ arb.last = "tick"
    /\ arb.result = "ok"
    /\ arb.run_log = <<1, 2, 3>>
    /\ arb.executed = {1, 2, 3}

\* C32: the assertions of TickValue::set_value_for_priority hold in every
\* reachable state: no tick panics when a program with a priority that
\* set_priority admits, or with the default priority, produces an output.
C32_PriorityAssertionsHold ==
    arb.result # "panic"

-----------------------------------------------------------------------------
(* Claims about the frame of failed requests and about first runs *)

\* C33: a parameter request that is answered with an error (400 or 404)
\* leaves the state of every program unchanged, its dirty_parameters flag
\* included.
C33_FailedRequestChangesNothing ==
    [][(/\ response'.op \in {"set_parameter", "cycle_parameter"}
        /\ response'.status \in {400, 404})
          => fixtures' = fixtures]_vars

\* the fixture script of the specification of first runs: the bundled
\* programs and one slow-mode script, [OFF, ON, EXTERNAL, MANUAL, SCR1]
FirstScripts ==
    {c \in SetupCalls : c.programs = <<<<"SCR1", "slow">>>>
                        /\ ~c.disable_builtin /\ ~c.disable_manual}

\* OFF, MANUAL or SCR1 is observed
InitFirst ==
    /\ InitWith(FirstScripts)
    /\ \E i \in {1, 4, 5} : watch = Watching(1, i, FALSE)

\* the parameter requests of this specification
FirstRequests == {<<"a", Continuous(ParamScale)>>, <<"nope", Continuous(0)>>}

NextFirst ==
    \/ \E n \in ProgramNames(fixtures[1]) : HttpSetProgram(1, n)
    \/ CycleStart(1)
    \/ CycleLoop
    \/ \E n \in {"MANUAL", "SCR1"} : \E rq \in FirstRequests :
          HttpSetParameter(1, n, rq[1], rq[2])
    \/ Tick(MaxSkipped, TRUE)

SpecFirst == InitFirst /\ [][NextFirst]_vars

RunProgram(fs, f) == fs[f].programs[fs[f].current_program_index + 1]

\* C35: a run of a scripted program in which binding the parameters or
\* _tick fails appends no set-request and leaves the skip counter as it was,
\* so a slow-mode program whose counter is 0 is due again on its next run.
C35_FailedRunStartsNoSkipPeriod ==
    [][\A f \in DOMAIN tick_log' :
          (RunProgram(fixtures, f).kind = "Lua" /\ tick_log'[f].result = "err") =>
             /\ tick_log'[f].emitted = <<>>
             /\ set_requests' = <<>>
             /\ RunProgram(fixtures', f).skip_ticks_until_next_run
                   = RunProgram(fixtures, f).skip_ticks_until_next_run
             /\ RunProgram(fixtures, f).skip_ticks_until_next_run = 0
                   => lua_due(RunProgram(fixtures', f))]_vars

\* the slow-mode script SCR1 was run with counter 0, its _tick was called
\* and failed, and its counter is still 0
C35_Witness ==
    /\ tick_log # <<>>
    /\ RunProgram(fixtures, 1).name = "SCR1"
    /\ RunProgram(fixtures, 1).slow_mode
    /\ tick_log[1].result = "err"
    /\ tick_log[1].lua_called
    /\ tick_log[1].emitted = <<>>
    /\ RunProgram(fixtures, 1).skip_ticks_until_next_run = 0

Ids(s) == [i \in DOMAIN s |-> s[i].id]

\* the concatenation of the batches of a sequence of batches
RECURSIVE Flatten(_)
Flatten(bs) == IF bs = <<>> THEN <<>> ELSE Head(bs) \o Flatten(Tail(bs))

\* C37: for any interleaving of the ingester and the ticks, every event
\* appended to the shared buffer is in the copy of exactly one tick: the
\* copies of the ticks so far, in order, followed by the buffer, list the
\* appended events once each in arrival order, so the drain loses none and
\* hands none to two ticks.
C37_DrainExactlyOnce ==
    /\ Flatten(arb.batches) \o Ids(arb.event_buffer) \o Ids(arb.pending) = Ids(arb.arrived)
    /\ NoDuplicates(Flatten(arb.batches))
    /\ \A b \in DOMAIN arb.batches : arb.batches[b] # <<>>

\* two ticks each drained one event: the second event was appended after
\* the first tick's drain, and the buffer is empty again
C37_Witness ==
    /\ arb.batches = <<(<<1>>), (<<2>>)>>
    /\ arb.event_buffer = <<>>
    /\ arb.pending = <<>>
    /\ arb.last = "tick"

-----------------------------------------------------------------------------
(* The set channel and the set sender task *)

\* mpsc::channel(1): the batches the set channel buffers
SetChannelCapacity == 1

\* whether set_tx.send(...) returns: the receiver was dropped, or the
\* channel has room; otherwise the tick waits in send
send_returns(rt) ==
    rt.set_rx = "dropped" \/ Len(rt.channel) < SetChannelCapacity

\* the tail of Runtime::tick: a non-empty batch is sent to the set sender
\* task and the result of send is unwrapped, which panics when the
\* receiver was dropped
send_set_requests(rt) ==
    IF rt.sent = <<>> THEN rt
    ELSE IF rt.set_rx = "dropped" THEN [rt EXCEPT !.result = "panic"]
    ELSE [rt EXCEPT !.channel = Append(@, rt.sent)]

\* Runtime::tick with its send, called by the tick loop; a panic ends the loop
SendTick ==
    /\ arb.programs # <<>>
    /\ arb.result # "panic"
    /\ \E oc \in ArbOutcomes(arb.programs) :
          LET done == Runtime_tick(arb, oc)
          IN  /\ done.sent # <<>> => send_returns(arb)
              /\ arb' = send_set_requests(done)
    /\ UNCHANGED <<fixtures, call, response, set_requests, tick_log, watch, main, ticker>>

\* the set sender task receives a batch and calls client.set with it
SenderRecv ==
    /\ arb.set_rx = "open"
    /\ arb.posting = <<>>
    /\ arb.channel # <<>>
    /\ arb' = [arb EXCEPT !.posting = Head(arb.channel),
                          !.upstream = Head(arb.channel),
                          !.channel = Tail(@),
                          !.last = "recv"]
    /\ UNCHANGED <<fixtures, call, response, set_requests, tick_log, watch, main, ticker>>

\* client.set returns: on Ok the task waits for the next batch, on Err it
\* logs and returns, which drops the receiver and the batches it buffers
SenderSetReturns ==
    /\ arb.set_rx = "open"
    /\ arb.posting # <<>>
    /\ \E ok \in BOOLEAN :
          arb' = IF ok
                 THEN [arb EXCEPT !.posting = <<>>, !.last = "set_ok"]
                 ELSE [arb EXCEPT !.posting = <<>>, !.set_rx = "dropped",
                                  !.channel = <<>>, !.last = "set_err"]
    /\ UNCHANGED <<fixtures, call, response, set_requests, tick_log, watch, main, ticker>>

\* the runtime after Runtime::new: the programs loaded, the set sender task
\* waiting on the empty channel
InitSend ==
    /\ fixtures = <<>>
    /\ call = Idle
    /\ response = NoResponse
    /\ set_requests = <<>>
    /\ tick_log = <<>>
    /\ watch = Watching(0, 0, FALSE)
    /\ main = MainIdle
    /\ ticker = TickerIdle
    /\ \E ps \in {l \in ArbProgramLists : Len(l) = 2} :
          arb = [ArbIdle EXCEPT !.programs = ps]

NextSend == SendTick \/ SenderRecv \/ SenderSetReturns

SpecSend == InitSend /\ [][NextSend]_vars

\* C38: a failure of one upstream set call does not stop later ticks: no
\* tick that produced set-requests after the failure panics in its send,
\* and no batch is left without being passed to the upstream client.
C38_SetFailureDoesNotStopTicks ==
    arb.set_rx = "dropped"
        => ~(arb.last = "tick" /\ arb.sent # <<>> /\ arb.result = "panic")

-----------------------------------------------------------------------------
(* The upstream TCP client (net.rs) *)

\* the request slots of ClientInner.results; the code has 4096, the ids wrap
\* around in the same way for a smaller number
NumSlots == 3

\* the perform_request calls explored; more than NumSlots, so the ids wrap
MaxRequests == 4

Slots == 0 .. (NumSlots - 1)

\* Client::new_from_conn: every slot None, current_id 0. A slot holds 0 for
\* None or the number of the request whose oneshot sender it stores;
\* requests lists the perform_request calls so far, wire the requests the
\* server received and has not answered, handler the state of the
\* handle_incoming_messages task.
Client_new ==
    [results |-> [i \in Slots |-> 0],
     current_id |-> 0,
     requests |-> <<>>,
     wire |-> {},
     handler |-> "running"]

\* a call of perform_request: its id, where it stands ("sending": slot
\* taken, message not yet sent; "awaiting": message sent; "done": result
\* received; "send_failed" and "rejected": returned Err), and the request
\* whose response it received (0 for none)
Request(id, state) == [id |-> id, state |-> state, answer |-> 0]

\* a locked block of perform_request that takes the next slot without
\* looking whether it is occupied
perform_request_lock_no_check(c) ==
    LET next_id == (c.current_id + 1) % NumSlots
        r == Len(c.requests) + 1
    IN  [c EXCEPT !.current_id = next_id,
                  !.results[next_id] = r,
                  !.requests = Append(@, Request(next_id, "sending"))]

\* the locked block of perform_request: the next id is current_id + 1
\* modulo the number of slots; an occupied slot returns "too many open
\* requests", a free one stores the oneshot sender of this request
perform_request_lock(c) ==
    LET next_id == (c.current_id + 1) % NumSlots
        r == Len(c.requests) + 1
    IN  IF c.results[next_id] # 0
        THEN [c EXCEPT !.requests = Append(@, Request(next_id, "rejected"))]
        ELSE [c EXCEPT !.current_id = next_id,
                       !.results[next_id] = r,
                       !.requests = Append(@, Request(next_id, "sending"))]

\* perform_request after the lock: the request message is sent; a failed
\* send returns the error (the `?`) and leaves the slot as it is
perform_request_send(c, r, ok) ==
    IF ok
    THEN [c EXCEPT !.requests[r].state = "awaiting", !.wire = @ \cup {r}]
    ELSE [c EXCEPT !.requests[r].state = "send_failed"]

\* handle_incoming_messages for Message::Response { id, inner }, the
\* response of the server to request `from`: the slot id is taken; an empty
\* slot ends the task, otherwise the result is sent to the oneshot
\* receiver, and the unwrap panics when that receiver was dropped
handle_response(c, id, from) ==
    LET owner == c.results[id]
        taken == [c EXCEPT !.results[id] = 0, !.wire = @ \ {from}]
    IN  IF owner = 0 THEN [taken EXCEPT !.handler = "stopped"]
        ELSE IF c.requests[owner].state \in {"sending", "awaiting"}
        THEN [taken EXCEPT !.requests[owner].state = "done",
                           !.requests[owner].answer = from]
        ELSE [taken EXCEPT !.handler = "panicked"]

\* a task calls perform_request and runs its locked block
NetRequest ==
    /\ Len(arb.client.requests) < MaxRequests
    /\ arb' = [arb EXCEPT !.client = perform_request_lock(@), !.last = "request"]
    /\ UNCHANGED <<fixtures, call, response, set_requests, tick_log, watch, main, ticker>>

\* a task that holds a slot sends its request message, or fails to
NetSend ==
    /\ \E r \in DOMAIN arb.client.requests, ok \in BOOLEAN :
          /\ arb.client.requests[r].state = "sending"
          /\ arb' = [arb EXCEPT !.client = perform_request_send(@, r, ok), !.last = "send"]
    /\ UNCHANGED <<fixtures, call, response, set_requests, tick_log, watch, main, ticker>>

\* the server answers one of the requests it received, in any order, with
\* the id of the request
NetResponse ==
    /\ arb.client.handler = "running"
    /\ \E from \in arb.client.wire :
          arb' = [arb EXCEPT !.client = handle_response(@, arb.client.requests[from].id, from),
                             !.last = "response"]
    /\ UNCHANGED <<fixtures, call, response, set_requests, tick_log, watch, main, ticker>>

InitNet ==
    /\ fixtures = <<>>
    /\ call = Idle
    /\ response = NoResponse
    /\ set_requests = <<>>
    /\ tick_log = <<>>
    /\ watch = Watching(0, 0, FALSE)
    /\ main = MainIdle
    /\ ticker = TickerIdle
    /\ arb = [ArbIdle EXCEPT !.client = Client_new]

NextNet == NetRequest \/ NetSend \/ NetResponse

SpecNet == InitNet /\ [][NextNet]_vars

\* the requests whose callers hold a slot and await a result
Outstanding == {r \in DOMAIN arb.client.requests :
                   arb.client.requests[r].state \in {"sending", "awaiting"}}

\* C39: no two outstanding requests share a request id, and a response
\* completes exactly the request that was sent with its id: every completed
\* request received the response to itself, every outstanding request
\* still owns the slot of its id, and no slot belongs to an outstanding
\* request of another id.
C39_ResponsesMatchRequests ==
    /\ \A r1, r2 \in Outstanding :
          arb.client.requests[r1].id = arb.client.requests[r2].id => r1 = r2
    /\ \A r \in DOMAIN arb.client.requests :
          /\ arb.client.requests[r].state = "done" => arb.client.requests[r].answer = r
          /\ r \in Outstanding => arb.client.results[arb.client.requests[r].id] = r
          /\ arb.client.requests[r].state # "done" => arb.client.requests[r].answer = 0
    /\ arb.client.handler = "running"

\* the ids wrapped around: request 4 was sent with id 1, the id request 1
\* had, and got its own response, while request 3 is still awaiting and
\* request 2 was answered before
C39_Witness ==
    /\ Len(arb.client.requests) = 4
    /\ arb.client.requests[1].id = 1 /\ arb.client.requests[4].id = 1
    /\ arb.client.requests[1].state = "done"
    /\ arb.client.requests[2].state = "done"
    /\ arb.client.requests[3].state = "awaiting"
    /\ arb.client.requests[4].state = "done"
    /\ arb.client.requests[4].answer = 4

\* C40: perform_request fails with "too many open requests" only when every
\* slot is occupied by a request whose caller still awaits a response: in
\* every step in which a request is rejected, each slot holds a request
\* that is neither answered nor ended by a failed send.
C40_RejectedOnlyWhenFull ==
    [][\A r \in DOMAIN arb'.client.requests :
          (/\ arb'.client.requests[r].state = "rejected"
           /\ r \notin DOMAIN arb.client.requests)
             => \A i \in Slots :
                   /\ arb.client.results[i] # 0
                   /\ arb.client.results[i] \in Outstanding]_vars

====
